---- MODULE Spec2Model ----
(***************************************************************************)
(* State-machine model of the flint-steel test runner (runner.rs) driving  *)
(* the in-memory backend (mock.rs) through the FlintAdapter / FlintWorld / *)
(* FlintPlayer contract (traits.rs).  World creation can also fail the way *)
(* SteelTestWorld::new does (world.rs): by a panic.  The module also holds *)
(* the full backend (convert.rs, world.rs, player.rs), the test filter and *)
(* its glob matching (filter.rs), and specifications that call single      *)
(* functions and the methods of single worlds and players directly.        *)
(*                                                                         *)
(* Strings that the code inspects by prefix (block identifiers) are        *)
(* sequences of tokens, "minecraft:" being the 10-character prefix token.  *)
(* Option<T> is a sequence of length 0 (None) or 1 (Some).  Hash maps are  *)
(* functions with a finite domain.  The variable trace is a history of the *)
(* calls a run makes on its world and player; the code does not read it.   *)
(***************************************************************************)
EXTENDS Integers, Sequences, FiniteSets, TLC

VARIABLES
    specs,      \* run_tests: the input slice of TestSpec
    pc,         \* position of the runner: "next" | "setup" | "exec" | "returned" | "done" | "panic"
    idx,        \* run_tests: number of specs whose run_test has been entered
    world,      \* run_test: Option<Box<dyn FlintWorld>> owned by the running test
    player,     \* run_test: Option<Box<dyn FlintPlayer>>
    timeline,   \* run_test: TimelineAggregate of the running test
    tick,       \* run_test: loop variable of `for tick in 0..=timeline.max_tick`
    apos,       \* run_test: index (1-based) of the next action in the tick's bucket
    result,     \* run_test: TestResult under construction / returned
    results,    \* run_tests: Vec<TestResult> collected so far
    summary,    \* run_tests: Option<TestSummary>
    trace,      \* history: calls made on the world during the running test
    adapter,    \* TestRunner.adapter: the FlintAdapter the runner was built with
    args,       \* a direct call of one function: its arguments
    ret,        \* a direct call of one function: Option<its return value>
    recv,       \* direct calls of the methods of objects: the objects (worlds or players)
    hist        \* direct calls of the methods of objects: the calls made so far

vars == <<specs, pc, idx, world, player, timeline, tick, apos, result, results, summary, trace,
          adapter, args, ret, recv, hist>>

\* what no step of run_tests changes
frame == <<adapter, args, ret, recv, hist>>

\* what a direct call of one function leaves alone
runnerVars == <<specs, pc, idx, world, player, timeline, tick, apos, result, results, summary, trace,
                adapter>>

(***************************************************************************)
(* Bounds of the explored inputs.                                          *)
(***************************************************************************)
MaxSpecs == 2
MaxEntries == 2
MaxTickBound == 1
MaxSteelEntries == 2
MaxProps == 2
MaxChecks == 2
MaxPlacements == 2
MaxSpan == 1
MaxCalls == 3
MaxPattern == 3
MaxText == 4
MaxTags == 2
MaxPatterns == 2
MaxSuffix == 2
MaxThreads == 2
MaxBundle == 2

(***************************************************************************)
(* Generic helpers.                                                        *)
(***************************************************************************)
None == <<>>
Some(x) == <<x>>
IsSome(o) == Len(o) = 1
Unwrap(o) == o[1]

EmptyMap == <<>>
MapInsert(m, k, v) == [x \in (DOMAIN m) \cup {k} |-> IF x = k THEN v ELSE m[x]]
MapRemove(m, k) == [x \in (DOMAIN m) \ {k} |-> m[x]]

SeqsUpTo(S, n) == UNION {[1..k -> S] : k \in 0..n}

RECURSIVE SetMax(_)
SetMax(S) == IF S = {} THEN 0
             ELSE LET x == CHOOSE y \in S : TRUE
                      m == SetMax(S \ {x})
                  IN IF x > m THEN x ELSE m

(***************************************************************************)
(* Data model: traits.rs and flint_core::test_spec.                        *)
(***************************************************************************)
\* serde_json::Value
JString(s) == [t |-> "String", v |-> s]
JBool(b) == [t |-> "Bool", b |-> b]
JNumber(n) == [t |-> "Number", n |-> n]
JNull == [t |-> "Null"]
JArray == [t |-> "Array"]

\* bool::to_string / serde_json::Number::to_string
BoolToString(b) == IF b THEN "true" ELSE "false"
NumberToString(n) == ToString(n)

\* test_spec::Block { id, properties: map<String, serde_json::Value> }
Block(id, props) == [id |-> id, properties |-> props]

\* traits.rs BlockData::new / BlockData::with_properties
BlockData_new(id) == [id |-> id, properties |-> EmptyMap]
BlockData_with_properties(id, props) == [id |-> id, properties |-> props]

\* the property names of the model in ascending string order
KeysAscending == <<"facing", "lit", "powered", "properties">>
KeyRank(k) == CHOOSE i \in 1..Len(KeysAscending) : KeysAscending[i] = k

\* the orders in which a hash map may hand out its keys
IterationOrders(props) ==
    {o \in [1..Cardinality(DOMAIN props) -> DOMAIN props] : \A k \in DOMAIN props : \E i \in DOMAIN o : o[i] = k}
HashOrder(props) == CHOOSE o \in IterationOrders(props) : TRUE

RECURSIVE InsertByKey(_, _)
InsertByKey(sorted, k) ==
    IF sorted = <<>> THEN <<k>>
    ELSE IF KeyRank(k) < KeyRank(Head(sorted)) THEN <<k>> \o sorted
    ELSE <<Head(sorted)>> \o InsertByKey(Tail(sorted), k)

\* variant: the properties are written in the order the map hands them out
sort_by_key_asFound(keys) == keys

\* `properties.sort_by_key(|(key, _)| *key)`
RECURSIVE sort_by_key(_)
sort_by_key(keys) ==
    IF keys = <<>> THEN <<>> ELSE InsertByKey(sort_by_key(Tail(keys)), Head(keys))

\* the loop of fmt: `,` before every property but the first, then `key=value`
RECURSIVE WriteProperties(_, _, _)
WriteProperties(props, keys, i) ==
    IF i > Len(keys) THEN <<>>
    ELSE (IF i > 1 THEN <<",">> ELSE <<>>) \o <<keys[i], "=", props[keys[i]]>>
            \o WriteProperties(props, keys, i + 1)

\* impl Display for BlockData, on a map that iterates in the order `iter`:
\* the text written, piece by piece
BlockData_fmt(b, iter) ==
    b.id \o (IF DOMAIN b.properties = {} THEN <<>>
             ELSE <<"[">> \o WriteProperties(b.properties, sort_by_key(iter), 1) \o <<"]">>)

BlockData_to_string(b) == BlockData_fmt(b, HashOrder(b.properties))

\* traits.rs Item::new / Item::with_count
Item_new(id) == [id |-> id, count |-> 1]
\* u8::MAX, the largest count of an Item
U8Max == 255

Item_with_count(id, count) == [id |-> id, count |-> count]

MinecraftPrefix == "minecraft:"
AirId == <<MinecraftPrefix, "air">>
StoneId == <<MinecraftPrefix, "stone">>

(***************************************************************************)
(* mock.rs: MockWorld and MockPlayer.                                      *)
(***************************************************************************)
\* variant: a new world that already holds a block
MockWorld_new_prefilled ==
    [blocks |-> [q \in {<<0, 64, 0>>} |-> BlockData_new(StoneId)], tick |-> 0]

\* variant: a new world that shows the block written by an earlier test of the batch
MockWorld_new_shared ==
    [blocks |-> IF results = <<>> THEN EmptyMap
                ELSE [q \in {<<0, 64, 0>>} |-> BlockData_new(StoneId)],
     tick |-> 0]

MockWorld_new == [blocks |-> EmptyMap, tick |-> 0]

MockAdapter_create_test_world == MockWorld_new

\* variant: one call advances the world by two ticks
MockWorld_do_tick_twice(w) == [w EXCEPT !.tick = @ + 2]

\* variant: the tick counter stays where it is
MockWorld_do_tick_stuck(w) == w

MockWorld_do_tick(w) == [w EXCEPT !.tick = @ + 1]

MockWorld_current_tick(w) == w.tick

\* variant: a position never written reads as void air
MockWorld_get_block_voidAir(w, pos) ==
    IF pos \in DOMAIN w.blocks THEN w.blocks[pos]
    ELSE BlockData_new(<<MinecraftPrefix, "void_air">>)

MockWorld_get_block(w, pos) ==
    IF pos \in DOMAIN w.blocks THEN w.blocks[pos] ELSE BlockData_new(AirId)

\* variant: only string values are kept
MockPropertyValue_stringsOnly(v) == IF v.t = "String" THEN v.v ELSE ""

\* the value stored for one property of the written block
MockPropertyValue(v) ==
    CASE v.t = "String" -> v.v
      [] v.t = "Bool" -> BoolToString(v.b)
      [] v.t = "Number" -> NumberToString(v.n)
      [] OTHER -> ""

\* variant: a position that holds a block keeps it
MockWorld_set_block_keepsFirst(w, pos, block) ==
    IF pos \in DOMAIN w.blocks THEN w
    ELSE [w EXCEPT !.blocks = MapInsert(@, pos, BlockData_new(block.id))]

MockWorld_set_block(w, pos, block) ==
    LET data == [id |-> block.id,
                 properties |-> [k \in DOMAIN block.properties |->
                                    MockPropertyValue(block.properties[k])]]
    IN [w EXCEPT !.blocks = MapInsert(@, pos, data)]

MockPlayer_new == [slots |-> EmptyMap, selected_hotbar |-> 1]

MockWorld_create_player(w) == MockPlayer_new

\* variant: setting None leaves the slot as it is
MockPlayer_set_slot_ignoresNone(p, slot, item) ==
    IF IsSome(item) THEN [p EXCEPT !.slots = MapInsert(@, slot, Unwrap(item))] ELSE p

MockPlayer_set_slot(p, slot, item) ==
    IF IsSome(item)
    THEN [p EXCEPT !.slots = MapInsert(@, slot, Unwrap(item))]
    ELSE [p EXCEPT !.slots = MapRemove(@, slot)]

MockPlayer_get_slot(p, slot) ==
    IF slot \in DOMAIN p.slots THEN Some(p.slots[slot]) ELSE None

\* variant: every slot number is accepted
MockPlayer_select_hotbar_unchecked(p, slot) == [p EXCEPT !.selected_hotbar = slot]

MockPlayer_select_hotbar(p, slot) ==
    IF slot >= 1 /\ slot <= 9 THEN [p EXCEPT !.selected_hotbar = slot] ELSE p

MockPlayer_selected_hotbar(p) == p.selected_hotbar

\* variant: the use takes the item out of hotbar slot 1
MockPlayer_use_item_on_consumes(p, pos, face) == [p EXCEPT !.slots = MapRemove(@, "Hotbar1")]

MockPlayer_use_item_on(p, pos, face) == p

(***************************************************************************)
(* The full backend: convert.rs, world.rs (SteelTestWorld) and player.rs   *)
(* (SteelTestPlayer).  Of the registry and of the steel-core world and      *)
(* inventory the model keeps what these files use: the lookup of a block or *)
(* an item by key, the states of a block, and a store of block states and   *)
(* of item stacks.  A BlockStateId is the pair of the block and the values  *)
(* of its properties.                                                       *)
(***************************************************************************)
\* the keys of REGISTRY.blocks and REGISTRY.items
RegistryBlocks == {"air", "stone", "dirt", "redstone_lamp"}
RegistryItems == {"stone", "honeycomb"}

\* the states of a registered block
RegistryStates(b) ==
    IF b = "redstone_lamp"
    THEN {[k \in {"lit"} |-> v] : v \in {"true", "false"}}
    ELSE {EmptyMap}

\* steel_utils::Identifier::vanilla
Identifier_vanilla(path) == [namespace |-> "minecraft", path |-> path]

\* REGISTRY.blocks.by_key
Blocks_by_key(identifier) ==
    IF Len(identifier.path) = 1 /\ identifier.path[1] \in RegistryBlocks
    THEN Some(identifier.path[1])
    ELSE None

\* REGISTRY.blocks.get_default_state_id
Blocks_get_default_state_id(block_ref) ==
    [block |-> block_ref,
     properties |-> IF block_ref = "redstone_lamp" THEN [k \in {"lit"} |-> "false"] ELSE EmptyMap]

\* REGISTRY.blocks.state_id_from_properties
Blocks_state_id_from_properties(identifier, properties) ==
    LET b == Blocks_by_key(identifier)
    IN IF IsSome(b) /\ properties \in RegistryStates(Unwrap(b))
       THEN Some([block |-> Unwrap(b), properties |-> properties])
       ELSE None

\* REGISTRY.items.by_key
Items_by_key(identifier) ==
    IF Len(identifier.path) = 1 /\ identifier.path[1] \in RegistryItems
    THEN Some(identifier.path[1])
    ELSE None

\* convert.rs, lines 15-19: the block id without a leading "minecraft:"
BlockIdPath(id) ==
    IF Len(id) >= 1 /\ id[1] = MinecraftPrefix THEN Tail(id) ELSE id

\* variant: an unknown block id is written as stone
flint_block_to_state_id_fallback(block) ==
    LET identifier == Identifier_vanilla(BlockIdPath(block.id))
        found == Blocks_by_key(identifier)
    IN IF IsSome(found) THEN Some(Blocks_get_default_state_id(Unwrap(found)))
       ELSE Some(Blocks_get_default_state_id("stone"))

\* the property values are strings here (convert.rs, lines 23-28)
flint_block_to_state_id(block) ==
    LET identifier == Identifier_vanilla(BlockIdPath(block.id))
        properties == [k \in DOMAIN block.properties |-> block.properties[k].v]
    IN IF DOMAIN properties = {}
       THEN LET found == Blocks_by_key(identifier)
            IN IF IsSome(found) THEN Some(Blocks_get_default_state_id(Unwrap(found)))
               ELSE None
       ELSE Blocks_state_id_from_properties(identifier, properties)

state_id_to_block(state_id) ==
    IF state_id.block \notin RegistryBlocks THEN BlockData_new(AirId)
    ELSE BlockData_with_properties(<<MinecraftPrefix, state_id.block>>, state_id.properties)

\* an empty chunk section holds air everywhere
AirState == Blocks_get_default_state_id("air")

\* steel_core World: the block states, and the calls of its tick and of the
\* interaction logic that were made on it, in order
World_new == [states |-> EmptyMap, calls |-> <<>>]

SteelTestWorld_new == [world |-> World_new, tick |-> 0]

SteelAdapter_create_test_world == SteelTestWorld_new

\* steel_core World::tick_b(tick_count, runs_normally): the world tick is
\* run; the blocks of the registry modelled here have nothing scheduled
World_tick_b(level, tick_count, runs_normally) ==
    [level EXCEPT !.calls = Append(@, [fn |-> "tick_b", tick_count |-> tick_count,
                                       runs_normally |-> runs_normally])]

\* variant: the world ticks and the counter stays
SteelTestWorld_do_tick_keepsCounter(w) == [w EXCEPT !.world = World_tick_b(@, w.tick, TRUE)]

\* world.rs, lines 171-177: `tick.fetch_add(1)`, then `world.tick_b(tick_count, true)`
SteelTestWorld_do_tick(w) ==
    LET tick_count == w.tick
    IN [w EXCEPT !.tick = @ + 1, !.world = World_tick_b(@, tick_count, TRUE)]

SteelTestWorld_current_tick(w) == w.tick

\* steel_core World::get_block_state on a loaded chunk
World_get_block_state(level, pos) ==
    IF pos \in DOMAIN level.states THEN level.states[pos] ELSE AirState

\* steel_core World::set_block
World_set_block(level, pos, state_id) ==
    [level EXCEPT !.states = MapInsert(@, pos, state_id)]

SteelTestWorld_get_block(w, pos) == state_id_to_block(World_get_block_state(w.world, pos))

SteelTestWorld_set_block(w, pos, block) ==
    LET state_id == flint_block_to_state_id(block)
    IN IF ~IsSome(state_id) THEN w
       ELSE [w EXCEPT !.world = World_set_block(@, pos, Unwrap(state_id))]

\* the variants of PlayerSlot
PlayerSlots ==
    {"Hotbar1", "Hotbar2", "Hotbar3", "Hotbar4", "Hotbar5", "Hotbar6", "Hotbar7", "Hotbar8",
     "Hotbar9", "OffHand", "Boots", "Leggings", "Chestplate", "Helmet"}

\* player.rs, lines 102-119; 40 is PlayerInventory::SLOT_OFFHAND
player_slot_to_index(slot) ==
    CASE slot = "Hotbar1" -> 0
      [] slot = "Hotbar2" -> 1
      [] slot = "Hotbar3" -> 2
      [] slot = "Hotbar4" -> 3
      [] slot = "Hotbar5" -> 4
      [] slot = "Hotbar6" -> 5
      [] slot = "Hotbar7" -> 6
      [] slot = "Hotbar8" -> 7
      [] slot = "Hotbar9" -> 8
      [] slot = "OffHand" -> 40
      [] slot = "Boots" -> 36
      [] slot = "Leggings" -> 37
      [] slot = "Chestplate" -> 38
      [] slot = "Helmet" -> 39

\* steel_registry ItemStack::empty / with_count / is_empty
ItemStack_empty == [item |-> "air", count |-> 0]
ItemStack_with_count(item_ref, count) == [item |-> item_ref, count |-> count]
ItemStack_is_empty(stack) == stack.item = "air" \/ stack.count <= 0

\* player.rs, lines 128-132: the item id without a leading "minecraft:"
ItemIdPath(id) ==
    IF Len(id) >= 1 /\ id[1] = MinecraftPrefix THEN Tail(id) ELSE id

flint_item_to_stack(item) ==
    LET found == Items_by_key(Identifier_vanilla(ItemIdPath(item.id)))
    IN IF IsSome(found) THEN ItemStack_with_count(Unwrap(found), item.count)
       ELSE ItemStack_empty

\* `stack.count.try_into().unwrap_or(1)`: the i32 count as u8, 1 when it does not fit
CountAsU8(count) == IF count >= 0 /\ count <= U8Max THEN count ELSE 1

stack_to_flint_item(stack) ==
    IF ItemStack_is_empty(stack) THEN None
    ELSE Some(Item_with_count(<<MinecraftPrefix, stack.item>>, CountAsU8(stack.count)))

\* steel_core PlayerInventory: the item stacks by index and the selected slot (0-8)
PlayerInventory_new == [items |-> EmptyMap, selected |-> 0]
Inventory_set_item(inv, index, stack) == [inv EXCEPT !.items = MapInsert(@, index, stack)]
Inventory_get_item(inv, index) ==
    IF index \in DOMAIN inv.items THEN inv.items[index] ELSE ItemStack_empty

\* the Arc<World> that the player keeps points to the world of the
\* SteelTestWorld; that world is held there and handed to use_item_on
SteelTestPlayer_new(level) == [player |-> [inventory |-> PlayerInventory_new]]

SteelTestWorld_create_player(w) == SteelTestPlayer_new(w.world)

SteelTestPlayer_set_slot(p, slot, item) ==
    LET index == player_slot_to_index(slot)
        stack == IF IsSome(item) THEN flint_item_to_stack(Unwrap(item)) ELSE ItemStack_empty
    IN [p EXCEPT !.player.inventory = Inventory_set_item(@, index, stack)]

SteelTestPlayer_get_slot(p, slot) ==
    stack_to_flint_item(Inventory_get_item(p.player.inventory, player_slot_to_index(slot)))

SteelTestPlayer_select_hotbar(p, slot) ==
    IF slot >= 1 /\ slot <= 9 THEN [p EXCEPT !.player.inventory.selected = slot - 1] ELSE p

SteelTestPlayer_selected_hotbar(p) == p.player.inventory.selected + 1

\* convert.rs, lines 74-83
flint_face_to_direction(face) ==
    CASE face = "top" -> "Up"
      [] face = "bottom" -> "Down"
      [] face = "north" -> "North"
      [] face = "south" -> "South"
      [] face = "east" -> "East"
      [] face = "west" -> "West"

\* player.rs, lines 195-206: the hit is at the centre of the block,
\* (x + 0.5, y + 0.5, z + 0.5); `location` holds it in tenths of a block
BlockHitResult(pos, direction) ==
    [location |-> <<10 * pos[1] + 5, 10 * pos[2] + 5, 10 * pos[3] + 5>>,
     direction |-> direction, block_pos |-> pos,
     inside |-> FALSE, world_border_hit |-> FALSE, miss |-> FALSE]

\* what an interaction of steel_core may do, which this repository does not
\* decide: nothing, use up one item of the hand, or place the block of the
\* item held against the face that was hit and use up one item
InteractionEffects == {"none", "consumed", "placed"}

\* steel_core Direction: the neighbour of a position in a direction
Direction_relative(pos, direction) ==
    CASE direction = "Up" -> <<pos[1], pos[2] + 1, pos[3]>>
      [] direction = "Down" -> <<pos[1], pos[2] - 1, pos[3]>>
      [] direction = "North" -> <<pos[1], pos[2], pos[3] - 1>>
      [] direction = "South" -> <<pos[1], pos[2], pos[3] + 1>>
      [] direction = "East" -> <<pos[1] + 1, pos[2], pos[3]>>
      [] direction = "West" -> <<pos[1] - 1, pos[2], pos[3]>>

\* steel_registry ItemStack::shrink(1)
ItemStack_shrink(stack) ==
    IF stack.count <= 1 THEN ItemStack_empty ELSE [stack EXCEPT !.count = @ - 1]

\* steel_core game_mode::use_item_on(player, world, hand, hit_result): the
\* interaction is run on the player's world with the stack of the selected
\* hotbar slot; the player and the world after it, for each effect the
\* interaction may have.  An empty hand places and uses up nothing, and only
\* the item of a block is placed.
game_mode_use_item_on(entity, level, hand, hit_result, effect) ==
    LET held == Inventory_get_item(entity.inventory, entity.inventory.selected)
        called == [level EXCEPT !.calls = Append(@, [fn |-> "use_item_on", hand |-> hand,
                                                     hit_result |-> hit_result])]
        spent == [entity EXCEPT !.inventory =
                     Inventory_set_item(@, entity.inventory.selected, ItemStack_shrink(held))]
        target == Direction_relative(hit_result.block_pos, hit_result.direction)
    IN CASE effect = "consumed" /\ ~ItemStack_is_empty(held) ->
               [player |-> spent, world |-> called]
         [] effect = "placed" /\ ~ItemStack_is_empty(held) /\ held.item \in RegistryBlocks ->
               [player |-> spent,
                world |-> World_set_block(called, target, Blocks_get_default_state_id(held.item))]
         [] OTHER -> [player |-> entity, world |-> called]

\* player.rs, lines 190-217, on the world `level` that `self.player.world`
\* shares with the SteelTestWorld: the player and that world after the call
SteelTestPlayer_use_item_on(p, level, pos, face, effect) ==
    LET r == game_mode_use_item_on(p.player, level, "MainHand",
                                   BlockHitResult(pos, flint_face_to_direction(face)), effect)
    IN [player |-> [p EXCEPT !.player = r.player], world |-> r.world]

(***************************************************************************)
(* traits.rs: the calls through Box<dyn FlintWorld>, Box<dyn FlintPlayer>  *)
(* and the adapter go to the implementation of the value behind them.      *)
(***************************************************************************)
IsSteelTestWorld(w) == "world" \in DOMAIN w
IsSteelTestPlayer(p) == "player" \in DOMAIN p

FlintAdapter_create_test_world(a) ==
    IF a = "steel" THEN SteelAdapter_create_test_world ELSE MockAdapter_create_test_world

FlintWorld_do_tick(w) ==
    IF IsSteelTestWorld(w) THEN SteelTestWorld_do_tick(w) ELSE MockWorld_do_tick(w)

FlintWorld_current_tick(w) ==
    IF IsSteelTestWorld(w) THEN SteelTestWorld_current_tick(w) ELSE MockWorld_current_tick(w)

FlintWorld_get_block(w, pos) ==
    IF IsSteelTestWorld(w) THEN SteelTestWorld_get_block(w, pos) ELSE MockWorld_get_block(w, pos)

FlintWorld_set_block(w, pos, block) ==
    IF IsSteelTestWorld(w) THEN SteelTestWorld_set_block(w, pos, block)
    ELSE MockWorld_set_block(w, pos, block)

FlintWorld_create_player(w) ==
    IF IsSteelTestWorld(w) THEN SteelTestWorld_create_player(w) ELSE MockWorld_create_player(w)

FlintPlayer_set_slot(p, slot, item) ==
    IF IsSteelTestPlayer(p) THEN SteelTestPlayer_set_slot(p, slot, item)
    ELSE MockPlayer_set_slot(p, slot, item)

FlintPlayer_get_slot(p, slot) ==
    IF IsSteelTestPlayer(p) THEN SteelTestPlayer_get_slot(p, slot) ELSE MockPlayer_get_slot(p, slot)

FlintPlayer_select_hotbar(p, slot) ==
    IF IsSteelTestPlayer(p) THEN SteelTestPlayer_select_hotbar(p, slot)
    ELSE MockPlayer_select_hotbar(p, slot)

FlintPlayer_selected_hotbar(p) ==
    IF IsSteelTestPlayer(p) THEN SteelTestPlayer_selected_hotbar(p)
    ELSE MockPlayer_selected_hotbar(p)

\* the player, and the world it was created on, after `player.use_item_on(pos, face)`
FlintPlayer_use_item_on(p, w, pos, face, effect) ==
    IF IsSteelTestPlayer(p)
    THEN LET r == SteelTestPlayer_use_item_on(p, w.world, pos, face, effect)
         IN [player |-> r.player, world |-> [w EXCEPT !.world = r.world]]
    ELSE [player |-> MockPlayer_use_item_on(p, pos, face), world |-> w]

(***************************************************************************)
(* runner.rs: block_matches.                                               *)
(***************************************************************************)
\* variant: any namespace prefix is removed
StripMinecraft_anyNamespace(id) == IF Len(id) >= 2 THEN Tail(id) ELSE id

\* `if id.starts_with("minecraft:") { &id[10..] } else { &id }`
StripMinecraft(id) ==
    IF Len(id) >= 1 /\ id[1] = MinecraftPrefix THEN Tail(id) ELSE id

\* the expected value types that are compared (String, Bool, Number)
IsComparedValue(v) == v.t \in {"String", "Bool", "Number"}

ExpectedStr(v) ==
    CASE v.t = "String" -> v.v
      [] v.t = "Bool" -> BoolToString(v.b)
      [] v.t = "Number" -> NumberToString(v.n)

\* variant: the key "properties" is compared like any other key
block_matches_comparesAllKeys(actual, expected) ==
    /\ \/ actual.id = expected.id
       \/ StripMinecraft(actual.id) = StripMinecraft(expected.id)
    /\ \A key \in DOMAIN expected.properties :
          \/ ~IsComparedValue(expected.properties[key])
          \/ /\ key \in DOMAIN actual.properties
             /\ actual.properties[key] = ExpectedStr(expected.properties[key])

block_matches(actual, expected) ==
    /\ \/ actual.id = expected.id
       \/ StripMinecraft(actual.id) = StripMinecraft(expected.id)
    /\ \A key \in DOMAIN expected.properties :
          \/ key = "properties"
          \/ ~IsComparedValue(expected.properties[key])
          \/ /\ key \in DOMAIN actual.properties
             /\ actual.properties[key] = ExpectedStr(expected.properties[key])

(***************************************************************************)
(* flint_core::test_spec::ActionType constructors.                         *)
(***************************************************************************)
Place(pos, block) == [type |-> "Place", pos |-> pos, block |-> block]
PlaceEach(blocks) == [type |-> "PlaceEach", blocks |-> blocks]
Fill(region, with) == [type |-> "Fill", region |-> region, with |-> with]
Remove(pos) == [type |-> "Remove", pos |-> pos]
AssertChecks(checks) == [type |-> "Assert", checks |-> checks]
UseItemOn(pos, face, item) == [type |-> "UseItemOn", pos |-> pos, face |-> face, item |-> item]
SetSlot(slot, item, count) == [type |-> "SetSlot", slot |-> slot, item |-> item, count |-> count]
SelectHotbar(slot) == [type |-> "SelectHotbar", slot |-> slot]

Placement(pos, block) == [pos |-> pos, block |-> block]
Check(pos, is) == [pos |-> pos, is |-> is]
Entry(at, action) == [at |-> at, action_type |-> action]

(***************************************************************************)
(* runner.rs: TestRunner::execute_action.  The value is the world and the  *)
(* player after the action, the ActionOutcome, and the calls made on the   *)
(* world and the player, in order.                                         *)
(***************************************************************************)
OutcomeAction == [kind |-> "Action"]
OutcomeAssertPassed == [kind |-> "AssertPassed"]
OutcomeAssertFailed(fail) == [kind |-> "AssertFailed", fail |-> fail]

CallSetBlock(pos) == [op |-> "set_block", pos |-> pos]
CallCreatePlayer == [op |-> "create_player"]
\* the use_item_on call with what its receiver shows when the call is made
CallUseItemOn(pos, p) ==
    [op |-> "use_item_on", pos |-> pos, selected |-> FlintPlayer_selected_hotbar(p),
     slots |-> [s \in PlayerSlots |-> FlintPlayer_get_slot(p, s)]]

\* `for p in positions { world.set_block(p, block) }`
RECURSIVE SetBlocks(_, _, _)
SetBlocks(w, positions, block) ==
    IF positions = <<>> THEN w
    ELSE SetBlocks(FlintWorld_set_block(w, Head(positions), block), Tail(positions), block)

\* variant: the placements are written last to first
RECURSIVE SetPlacements_reversed(_, _)
SetPlacements_reversed(w, blocks) ==
    IF blocks = <<>> THEN w
    ELSE FlintWorld_set_block(SetPlacements_reversed(w, Tail(blocks)),
                              Head(blocks).pos, Head(blocks).block)

\* `for placement in blocks { world.set_block(placement.pos, &placement.block) }`
RECURSIVE SetPlacements(_, _)
SetPlacements(w, blocks) ==
    IF blocks = <<>> THEN w
    ELSE SetPlacements(FlintWorld_set_block(w, Head(blocks).pos, Head(blocks).block), Tail(blocks))

Min2(a, b) == IF a < b THEN a ELSE b
Max2(a, b) == IF a > b THEN a ELSE b

\* variant: the first corner is taken as the minimum and the second as the maximum
FillPositions_asGiven(region) ==
    LET nx == region[2][1] - region[1][1] + 1
        ny == region[2][2] - region[1][2] + 1
        nz == region[2][3] - region[1][3] + 1
        n == IF nx <= 0 \/ ny <= 0 \/ nz <= 0 THEN 0 ELSE nx * ny * nz
    IN [i \in 1..n |-> <<region[1][1] + ((i - 1) \div (ny * nz)),
                         region[1][2] + (((i - 1) \div nz) % ny),
                         region[1][3] + ((i - 1) % nz)>>]

\* the positions visited by `for x in min_x..=max_x { for y .. { for z .. } } }`, in order
FillPositions(region) ==
    LET min_x == Min2(region[1][1], region[2][1])
        max_x == Max2(region[1][1], region[2][1])
        min_y == Min2(region[1][2], region[2][2])
        max_y == Max2(region[1][2], region[2][2])
        min_z == Min2(region[1][3], region[2][3])
        max_z == Max2(region[1][3], region[2][3])
        ny == max_y - min_y + 1
        nz == max_z - min_z + 1
        n == (max_x - min_x + 1) * ny * nz
    IN [i \in 1..n |-> <<min_x + ((i - 1) \div (ny * nz)),
                         min_y + (((i - 1) \div nz) % ny),
                         min_z + ((i - 1) % nz)>>]

\* expected_props: the String/Bool/Number properties of the expected block, as strings
ExpectedProps(expected) ==
    LET keys == {k \in DOMAIN expected.properties : IsComparedValue(expected.properties[k])}
    IN [k \in keys |-> ExpectedStr(expected.properties[k])]

\* format!("Block mismatch at {:?}: expected '{}', got '{}'", pos, expected, actual)
ErrorMessage(pos, expected, actual) ==
    [text |-> "Block mismatch at", pos |-> pos,
     expected |-> BlockData_to_string(expected), got |-> BlockData_to_string(actual)]

AssertFailure(t, pos, expected, actual) ==
    [tick |-> t, position |-> pos,
     error_message |-> ErrorMessage(pos, BlockData_with_properties(expected.id, ExpectedProps(expected)),
                                    actual),
     expected |-> BlockData_with_properties(expected.id, ExpectedProps(expected)),
     actual |-> actual]

\* indices of the checks that do not match the block read at their position
Mismatches(w, checks) ==
    {i \in 1..Len(checks) : ~block_matches(FlintWorld_get_block(w, checks[i].pos), checks[i].is)}

\* variant: the failure reported is that of the last mismatching check
ExecuteAssert_lastMismatch(w, checks, t) ==
    LET bad == Mismatches(w, checks)
    IN IF bad = {} THEN OutcomeAssertPassed
       ELSE LET i == CHOOSE j \in bad : \A k \in bad : j >= k
            IN OutcomeAssertFailed(AssertFailure(t, checks[i].pos, checks[i].is,
                                                 FlintWorld_get_block(w, checks[i].pos)))

ExecuteAssert(w, checks, t) ==
    LET bad == Mismatches(w, checks)
    IN IF bad = {} THEN OutcomeAssertPassed
       ELSE LET i == CHOOSE j \in bad : \A k \in bad : j <= k
            IN OutcomeAssertFailed(AssertFailure(t, checks[i].pos, checks[i].is,
                                                 FlintWorld_get_block(w, checks[i].pos)))

\* variant: a player is created for every player action
GetOrCreatePlayer_always(w, p) ==
    [player |-> FlintWorld_create_player(w), calls |-> <<CallCreatePlayer>>]

\* `player.get_or_insert_with(|| world.create_player())`
GetOrCreatePlayer(w, p) ==
    IF IsSome(p) THEN [player |-> Unwrap(p), calls |-> <<>>]
    ELSE [player |-> FlintWorld_create_player(w), calls |-> <<CallCreatePlayer>>]

\* variant: the block written by Remove is cave air
RemoveAir_caveAir == Block(<<MinecraftPrefix, "cave_air">>, EmptyMap)

\* the block written by Remove (runner.rs, lines 168-171)
RemoveAir == Block(AirId, EmptyMap)

\* `if let Some(item_id) = item { p.set_slot(Hotbar1, ..); p.select_hotbar(1); }`
UseItemOnHand(p, item) ==
    IF IsSome(item)
    THEN FlintPlayer_select_hotbar(
             FlintPlayer_set_slot(p, "Hotbar1", Some(Item_new(Unwrap(item)))), 1)
    ELSE p

ActionResult(w, p, outcome, calls) ==
    [world |-> w, player |-> p, outcome |-> outcome, calls |-> calls]

\* the effects that the interaction of an action may have: a UseItemOn on a
\* player of the full backend reaches steel_core, nothing else does
InteractionsFor(w, action) ==
    IF action.type = "UseItemOn" /\ IsSteelTestWorld(w) THEN InteractionEffects ELSE {"none"}

\* runner.rs, lines 124-253; `effect` is what steel_core's interaction does
\* when the action reaches it
execute_action(w, p, action, t, effect) ==
    CASE action.type = "Place" ->
            ActionResult(FlintWorld_set_block(w, action.pos, action.block), p, OutcomeAction,
                         <<CallSetBlock(action.pos)>>)
      [] action.type = "PlaceEach" ->
            ActionResult(SetPlacements(w, action.blocks), p, OutcomeAction,
                         [i \in 1..Len(action.blocks) |-> CallSetBlock(action.blocks[i].pos)])
      [] action.type = "Fill" ->
            LET ps == FillPositions(action.region)
            IN ActionResult(SetBlocks(w, ps, action.with), p, OutcomeAction,
                            [i \in 1..Len(ps) |-> CallSetBlock(ps[i])])
      [] action.type = "Remove" ->
            ActionResult(FlintWorld_set_block(w, action.pos, RemoveAir), p,
                         OutcomeAction, <<CallSetBlock(action.pos)>>)
      [] action.type = "Assert" ->
            ActionResult(w, p, ExecuteAssert(w, action.checks, t), <<>>)
      [] action.type = "UseItemOn" ->
            LET g == GetOrCreatePlayer(w, p)
                p1 == UseItemOnHand(g.player, action.item)
                used == FlintPlayer_use_item_on(p1, w, action.pos, action.face, effect)
            IN ActionResult(used.world, Some(used.player),
                            OutcomeAction,
                            g.calls \o <<CallUseItemOn(action.pos, p1)>>)
      [] action.type = "SetSlot" ->
            LET g == GetOrCreatePlayer(w, p)
                item == IF IsSome(action.item)
                        THEN Some(Item_with_count(Unwrap(action.item), action.count))
                        ELSE None
            IN ActionResult(w, Some(FlintPlayer_set_slot(g.player, action.slot, item)),
                            OutcomeAction, g.calls)
      [] action.type = "SelectHotbar" ->
            LET g == GetOrCreatePlayer(w, p)
            IN ActionResult(w, Some(FlintPlayer_select_hotbar(g.player, action.slot)),
                            OutcomeAction, g.calls)

(***************************************************************************)
(* flint_core: TimelineAggregate::from_tests, TestResult, TestSummary.     *)
(***************************************************************************)
AddOffset(pos, off) == <<pos[1] + off[1], pos[2] + off[2], pos[3] + off[3]>>

\* variant: only the first corner of a Fill region is moved
OffsetAction_firstCorner(a, off) ==
    CASE a.type = "Place" -> [a EXCEPT !.pos = AddOffset(@, off)]
      [] a.type = "PlaceEach" ->
            [a EXCEPT !.blocks = [i \in 1..Len(@) |-> [@[i] EXCEPT !.pos = AddOffset(@, off)]]]
      [] a.type = "Fill" -> [a EXCEPT !.region = <<AddOffset(@[1], off), @[2]>>]
      [] a.type = "Remove" -> [a EXCEPT !.pos = AddOffset(@, off)]
      [] a.type = "Assert" ->
            [a EXCEPT !.checks = [i \in 1..Len(@) |-> [@[i] EXCEPT !.pos = AddOffset(@, off)]]]
      [] a.type = "UseItemOn" -> [a EXCEPT !.pos = AddOffset(@, off)]
      [] OTHER -> a

\* the action with the spatial offset applied to every position it carries
OffsetAction(a, off) ==
    CASE a.type = "Place" -> [a EXCEPT !.pos = AddOffset(@, off)]
      [] a.type = "PlaceEach" ->
            [a EXCEPT !.blocks = [i \in 1..Len(@) |-> [@[i] EXCEPT !.pos = AddOffset(@, off)]]]
      [] a.type = "Fill" ->
            [a EXCEPT !.region = <<AddOffset(@[1], off), AddOffset(@[2], off)>>]
      [] a.type = "Remove" -> [a EXCEPT !.pos = AddOffset(@, off)]
      [] a.type = "Assert" ->
            [a EXCEPT !.checks = [i \in 1..Len(@) |-> [@[i] EXCEPT !.pos = AddOffset(@, off)]]]
      [] a.type = "UseItemOn" -> [a EXCEPT !.pos = AddOffset(@, off)]
      [] OTHER -> a

\* variant: the entries of one tick are put in the bucket last first
RECURSIVE SpecEntriesAt_reversed(_, _, _, _, _)
SpecEntriesAt_reversed(test_idx, entries, off, t, k) ==
    IF k > Len(entries) THEN <<>>
    ELSE LET rest == SpecEntriesAt_reversed(test_idx, entries, off, t, k + 1)
         IN IF entries[k].at = t
            THEN rest \o <<<<test_idx, [entries[k] EXCEPT !.action_type = OffsetAction(@, off)], 0>>>>
            ELSE rest

\* the bucket entries (test_idx, entry, value_idx) that the entries k.. of one spec add at tick t
RECURSIVE SpecEntriesAt(_, _, _, _, _)
SpecEntriesAt(test_idx, entries, off, t, k) ==
    IF k > Len(entries) THEN <<>>
    ELSE LET rest == SpecEntriesAt(test_idx, entries, off, t, k + 1)
         IN IF entries[k].at = t
            THEN <<<<test_idx, [entries[k] EXCEPT !.action_type = OffsetAction(@, off)], 0>>>> \o rest
            ELSE rest

\* the bucket of tick t over the specs i.. of the input, earlier spec first
RECURSIVE BucketAt(_, _, _)
BucketAt(tests, t, i) ==
    IF i > Len(tests) THEN <<>>
    ELSE SpecEntriesAt(i - 1, tests[i][1].timeline, tests[i][2], t, 1) \o BucketAt(tests, t, i + 1)

\* variant: max_tick is overwritten by each spec, the last one wins
TimelineAggregate_from_tests_lastSpec(tests) ==
    LET ticksOf(i) == {tests[i][1].timeline[k].at : k \in 1..Len(tests[i][1].timeline)}
        ticks == UNION {ticksOf(i) : i \in 1..Len(tests)}
    IN [timeline |-> [t \in ticks |-> BucketAt(tests, t, 1)],
        max_tick |-> IF tests = <<>> THEN 0 ELSE SetMax(ticksOf(Len(tests)))]

TimelineAggregate_from_tests(tests) ==
    LET ticks == UNION {{tests[i][1].timeline[k].at : k \in 1..Len(tests[i][1].timeline)} :
                          i \in 1..Len(tests)}
    IN [timeline |-> [t \in ticks |-> BucketAt(tests, t, 1)], max_tick |-> SetMax(ticks)]

TestResult_new(name) ==
    [test_name |-> name, success |-> TRUE, assertions |-> <<>>, total_ticks |-> 0]

TestResult_add_assertion(r, a) == [r EXCEPT !.assertions = Append(@, a)]

AssertionSuccess(t) == [kind |-> "Success", tick |-> t]
AssertionFailure(fail) == [kind |-> "Failure", fail |-> fail]

TestSummary_from_results(rs) ==
    [total_tests |-> Len(rs),
     passed_tests |-> Cardinality({i \in 1..Len(rs) : rs[i].success}),
     failed_tests |-> Cardinality({i \in 1..Len(rs) : ~rs[i].success}),
     results |-> rs]

(***************************************************************************)
(* runner.rs: TestRunner::run_test and TestRunner::run_tests, one action   *)
(* per step of the code.                                                   *)
(***************************************************************************)
ZeroOffset == <<0, 0, 0>>
CurrentSpec == specs[idx]
Bucket == IF tick \in DOMAIN timeline.timeline THEN timeline.timeline[tick] ELSE <<>>

CallDoTick(t) == [op |-> "do_tick", tick |-> t]
CallAction(t, i, wt) == [op |-> "action", tick |-> t, index |-> i, world_tick |-> wt]

\* run_test, lines 50-61: the world, the timeline, the empty result, no player
BeginTest ==
    /\ pc = "next"
    /\ idx < Len(specs)
    /\ idx' = idx + 1
    /\ world' = Some(FlintAdapter_create_test_world(adapter))
    /\ timeline' = TimelineAggregate_from_tests(<<<<specs[idx + 1], ZeroOffset>>>>)
    /\ result' = Some(TestResult_new(specs[idx + 1].name))
    /\ player' = None
    /\ tick' = 0
    /\ apos' = 1
    /\ trace' = <<>>
    /\ pc' = "setup"
    /\ UNCHANGED <<specs, results, summary>>
    /\ UNCHANGED frame

\* variant: the configured inventory is not written
SetInventory_skipped(p, inventory, slots) == p

\* `for (slot_name, slot_config) in &player_config.inventory { p.set_slot(..) }`
RECURSIVE SetInventory(_, _, _)
SetInventory(p, inventory, slots) ==
    IF slots = {} THEN p
    ELSE LET s == CHOOSE x \in slots : TRUE
         IN SetInventory(
                FlintPlayer_set_slot(p, s, Some(Item_with_count(inventory[s].item, inventory[s].count))),
                inventory, slots \ {s})

\* run_test, lines 63-77: the player of the setup block
SetupPlayer ==
    /\ pc = "setup"
    /\ IF IsSome(CurrentSpec.setup) /\ IsSome(Unwrap(CurrentSpec.setup).player)
       THEN LET cfg == Unwrap(Unwrap(CurrentSpec.setup).player)
                g == GetOrCreatePlayer(Unwrap(world), player)
                p == SetInventory(g.player, cfg.inventory, DOMAIN cfg.inventory)
            IN /\ player' = Some(FlintPlayer_select_hotbar(p, cfg.selected_hotbar))
               /\ trace' = trace \o g.calls
       ELSE UNCHANGED <<player, trace>>
    /\ pc' = "exec"
    /\ UNCHANGED <<specs, idx, world, timeline, tick, apos, result, results, summary>>
    /\ UNCHANGED frame

\* variant: at most one Success entry per tick
RecordOutcome_oncePerTick(r, outcome, t) ==
    CASE outcome.kind = "Action" -> r
      [] outcome.kind = "AssertPassed" ->
            IF r.assertions # <<>> /\ r.assertions[Len(r.assertions)] = AssertionSuccess(t)
            THEN r
            ELSE TestResult_add_assertion(r, AssertionSuccess(t))
      [] outcome.kind = "AssertFailed" ->
            [TestResult_add_assertion(r, AssertionFailure(outcome.fail))
                EXCEPT !.success = FALSE, !.total_ticks = t]

\* the result after the outcome of one action at tick t (run_test, lines 90-102)
\* variant: a failed assertion leaves the success flag as it is
RecordOutcome_successKept(r, outcome, t) ==
    CASE outcome.kind = "Action" -> r
      [] outcome.kind = "AssertPassed" -> TestResult_add_assertion(r, AssertionSuccess(t))
      [] outcome.kind = "AssertFailed" ->
            [TestResult_add_assertion(r, AssertionFailure(outcome.fail)) EXCEPT !.total_ticks = t]

RecordOutcome(r, outcome, t) ==
    CASE outcome.kind = "Action" -> r
      [] outcome.kind = "AssertPassed" -> TestResult_add_assertion(r, AssertionSuccess(t))
      [] outcome.kind = "AssertFailed" ->
            [TestResult_add_assertion(r, AssertionFailure(outcome.fail))
                EXCEPT !.success = FALSE, !.total_ticks = t]

\* variant: the loop goes on after a failed assertion
ReturnsEarly_never(outcome) == FALSE

\* whether run_test returns after this outcome (line 100)
ReturnsEarly(outcome) == outcome.kind = "AssertFailed"

\* run_test, lines 88-104: the next action of the bucket of this tick
ExecuteNext ==
    /\ pc = "exec"
    /\ tick <= timeline.max_tick
    /\ apos <= Len(Bucket)
    /\ \E effect \in InteractionsFor(Unwrap(world), Bucket[apos][2].action_type) :
       LET r == execute_action(Unwrap(world), player, Bucket[apos][2].action_type, tick, effect)
       IN /\ world' = Some(r.world)
          /\ player' = r.player
          /\ trace' = Append(trace, CallAction(tick, apos, FlintWorld_current_tick(Unwrap(world))))
                        \o r.calls
          /\ result' = Some(RecordOutcome(Unwrap(result), r.outcome, tick))
          /\ IF ReturnsEarly(r.outcome)
             THEN pc' = "returned" /\ apos' = apos
             ELSE pc' = "exec" /\ apos' = apos + 1
    /\ UNCHANGED <<specs, idx, timeline, tick, results, summary>>
    /\ UNCHANGED frame

\* run_test, line 107: `world.do_tick()` once the bucket is exhausted
AdvanceTick ==
    /\ pc = "exec"
    /\ tick <= timeline.max_tick
    /\ apos > Len(Bucket)
    /\ world' = Some(FlintWorld_do_tick(Unwrap(world)))
    /\ trace' = Append(trace, CallDoTick(tick))
    /\ tick' = tick + 1
    /\ apos' = 1
    /\ UNCHANGED <<specs, pc, idx, player, timeline, result, results, summary>>
    /\ UNCHANGED frame

\* variant: total_ticks counts the ticks run
CompleteResult_ticksRun(r, tl) == [r EXCEPT !.total_ticks = tl.max_tick + 1]

\* run_test, line 110: `result.total_ticks = timeline.max_tick`
CompleteResult(r, tl) == [r EXCEPT !.total_ticks = tl.max_tick]

\* run_test, lines 110-112: the loop is over
CompleteTest ==
    /\ pc = "exec"
    /\ tick > timeline.max_tick
    /\ result' = Some(CompleteResult(Unwrap(result), timeline))
    /\ pc' = "returned"
    /\ UNCHANGED <<specs, idx, world, player, timeline, tick, apos, results, summary, trace>>
    /\ UNCHANGED frame

\* variant: the newest result is put first
CollectResult_prepend ==
    /\ pc = "returned"
    /\ results' = <<Unwrap(result)>> \o results
    /\ world' = None
    /\ player' = None
    /\ pc' = "next"
    /\ UNCHANGED <<specs, idx, timeline, tick, apos, result, summary, trace>>
    /\ UNCHANGED frame

\* variant: a failed test ends the iteration over the specs
CollectResult_stopOnFailure ==
    /\ pc = "returned"
    /\ results' = Append(results, Unwrap(result))
    /\ world' = None
    /\ player' = None
    /\ pc' = "next"
    /\ idx' = IF Unwrap(result).success THEN idx ELSE Len(specs)
    /\ UNCHANGED <<specs, timeline, tick, apos, result, summary, trace>>
    /\ UNCHANGED frame

\* run_tests, line 119: the result joins the collected ones; world and player are dropped
CollectResult ==
    /\ pc = "returned"
    /\ results' = Append(results, Unwrap(result))
    /\ world' = None
    /\ player' = None
    /\ pc' = "next"
    /\ UNCHANGED <<specs, idx, timeline, tick, apos, result, summary, trace>>
    /\ UNCHANGED frame

\* run_tests, line 120: TestSummary::from_results
Summarize ==
    /\ pc = "next"
    /\ idx = Len(specs)
    /\ summary' = Some(TestSummary_from_results(results))
    /\ pc' = "done"
    /\ UNCHANGED <<specs, idx, world, player, timeline, tick, apos, result, results, trace>>
    /\ UNCHANGED frame

\* world.rs, lines 65-67: world creation fails and `expect` panics; the panic
\* unwinds through run_test (line 52) and through the iterator of run_tests
CreateWorldPanics ==
    /\ pc = "next"
    /\ idx < Len(specs)
    /\ idx' = idx + 1
    /\ pc' = "panic"
    /\ UNCHANGED <<specs, world, player, timeline, tick, apos, result, results, summary, trace>>
    /\ UNCHANGED frame

Next ==
    \/ BeginTest
    \/ SetupPlayer
    \/ ExecuteNext
    \/ AdvanceTick
    \/ CompleteTest
    \/ CollectResult
    \/ Summarize
    \/ CreateWorldPanics

(***************************************************************************)
(* filter.rs: TestFilter and glob_match.  A name, a pattern and a text are *)
(* sequences of characters; a tag is an atom.                              *)
(***************************************************************************)
Star == "*"
QuestionMark == "?"

\* variant: a `*` covers one or more characters
RECURSIVE glob_match_recursive_starNeedsOne(_, _, _, _)
glob_match_recursive_starNeedsOne(pattern, text, pi, ti) ==
    IF pi = Len(pattern) /\ ti = Len(text) THEN TRUE
    ELSE IF pi = Len(pattern) THEN FALSE
    ELSE CASE pattern[pi + 1] = Star ->
                  \E i \in (ti + 1)..Len(text) :
                      glob_match_recursive_starNeedsOne(pattern, text, pi + 1, i)
           [] pattern[pi + 1] = QuestionMark ->
                  IF ti < Len(text)
                  THEN glob_match_recursive_starNeedsOne(pattern, text, pi + 1, ti + 1)
                  ELSE FALSE
           [] OTHER ->
                  IF ti < Len(text) /\ text[ti + 1] = pattern[pi + 1]
                  THEN glob_match_recursive_starNeedsOne(pattern, text, pi + 1, ti + 1)
                  ELSE FALSE

\* indices pi and ti count from 0 as in the code
RECURSIVE glob_match_recursive(_, _, _, _)
glob_match_recursive(pattern, text, pi, ti) ==
    IF pi = Len(pattern) /\ ti = Len(text) THEN TRUE
    ELSE IF pi = Len(pattern) THEN FALSE
    ELSE CASE pattern[pi + 1] = Star ->
                  \E i \in ti..Len(text) : glob_match_recursive(pattern, text, pi + 1, i)
           [] pattern[pi + 1] = QuestionMark ->
                  IF ti < Len(text) THEN glob_match_recursive(pattern, text, pi + 1, ti + 1)
                  ELSE FALSE
           [] OTHER ->
                  IF ti < Len(text) /\ text[ti + 1] = pattern[pi + 1]
                  THEN glob_match_recursive(pattern, text, pi + 1, ti + 1)
                  ELSE FALSE

\* variant: the pattern has to cover a prefix of the text only
glob_match_prefix(pattern, text) ==
    \E n \in 0..Len(text) : glob_match_recursive(pattern, SubSeq(text, 1, n), 0, 0)

glob_match(pattern, text) == glob_match_recursive(pattern, text, 0, 0)

TestFilter(tags, name_patterns, exact_name) ==
    [tags |-> tags, name_patterns |-> name_patterns, exact_name |-> exact_name]

TestFilter_all == TestFilter(<<>>, <<>>, None)

\* variant: a spec has to carry every tag of the filter
TestFilter_matches_allTags(f, spec) ==
    /\ IsSome(f.exact_name) => spec.name = Unwrap(f.exact_name)
    /\ f.name_patterns # <<>> =>
          \E i \in 1..Len(f.name_patterns) : glob_match(f.name_patterns[i], spec.name)
    /\ \A i \in 1..Len(f.tags) : \E j \in 1..Len(spec.tags) : spec.tags[j] = f.tags[i]

TestFilter_matches(f, spec) ==
    IF IsSome(f.exact_name) /\ spec.name # Unwrap(f.exact_name) THEN FALSE
    ELSE IF f.name_patterns # <<>>
            /\ ~\E i \in 1..Len(f.name_patterns) : glob_match(f.name_patterns[i], spec.name)
    THEN FALSE
    ELSE IF f.tags # <<>>
            /\ ~\E i \in 1..Len(f.tags) : \E j \in 1..Len(spec.tags) : spec.tags[j] = f.tags[i]
    THEN FALSE
    ELSE TRUE

\* variant: the exact name is not looked at
TestFilter_is_empty_ignoresExactName(f) == f.tags = <<>> /\ f.name_patterns = <<>>

TestFilter_is_empty(f) == f.tags = <<>> /\ f.name_patterns = <<>> /\ ~IsSome(f.exact_name)

(***************************************************************************)
(* Inputs: batches of specs.                                               *)
(***************************************************************************)
P1 == <<0, 64, 0>>
Stone == Block(StoneId, EmptyMap)
Air == Block(AirId, EmptyMap)
Honeycomb == <<MinecraftPrefix, "honeycomb">>

RunnerActions ==
    { Place(P1, Stone),
      AssertChecks(<<Check(P1, Air)>>),
      UseItemOn(P1, "top", Some(Honeycomb)),
      SetSlot("Hotbar2", Some(Honeycomb), 2),
      SelectHotbar(2) }

PlayerConfig(inventory, selected) == [inventory |-> inventory, selected_hotbar |-> selected]
SetupWith(playerCfg) == [player |-> playerCfg]

Setups ==
    { None,
      Some(SetupWith(None)),
      Some(SetupWith(Some(PlayerConfig([s \in {"Hotbar1"} |-> [item |-> StoneId, count |-> 3]], 3)))) }

TestSpec(name, setup, tl) == [name |-> name, setup |-> setup, timeline |-> tl]

Entries == {Entry(t, a) : t \in 0..MaxTickBound, a \in RunnerActions}

Subjects == {TestSpec("subject", s, tl) : s \in Setups, tl \in SeqsUpTo(Entries, MaxEntries)}

\* writes a block and creates a player at tick 0, then fails its assertion at
\* tick 1, which leaves a later action of tick 1 and one of tick 2 unexecuted
DirtySpec ==
    TestSpec("dirty", None,
             <<Entry(0, Place(P1, Stone)), Entry(0, SetSlot("Hotbar1", Some(Honeycomb), 1)),
               Entry(1, AssertChecks(<<Check(P1, Air)>>)), Entry(1, Place(P1, Stone)),
               Entry(2, Place(P1, Stone))>>)

Roles == {"subject", "dirty"}

BatchOf(shape, subject) ==
    [i \in 1..Len(shape) |-> IF shape[i] = "subject" THEN subject ELSE DirtySpec]

Batches == {BatchOf(shape, s) : shape \in SeqsUpTo(Roles, MaxSpecs), s \in Subjects}

EmptyTimeline == [timeline |-> EmptyMap, max_tick |-> 0]

\* run_tests is entered: nothing has run yet
RunnerStart ==
    /\ pc = "next"
    /\ idx = 0
    /\ world = None
    /\ player = None
    /\ timeline = EmptyTimeline
    /\ tick = 0
    /\ apos = 1
    /\ result = None
    /\ results = <<>>
    /\ summary = None
    /\ trace = <<>>
    /\ args = None
    /\ ret = None
    /\ recv = <<>>
    /\ hist = <<>>

Init ==
    /\ specs \in Batches
    /\ adapter = "mock"
    /\ RunnerStart

Spec == Init /\ [][Next]_vars

(***************************************************************************)
(* Inputs: one spec run on the full backend, with block and item ids the   *)
(* registry does not hold.                                                 *)
(***************************************************************************)
UnknownId == <<MinecraftPrefix, "unobtainium">>
ModStoneId == <<"mod:", "stone">>
LampLit == Block(<<MinecraftPrefix, "redstone_lamp">>, [k \in {"lit"} |-> JString("true")])

SteelBlocks == {Stone, LampLit, Block(UnknownId, EmptyMap), Block(ModStoneId, EmptyMap)}

SteelActions ==
    {Place(q, b) : q \in {P1, <<1, 64, 0>>}, b \in SteelBlocks}
        \cup {AssertChecks(<<Check(P1, b)>>) : b \in {Stone, Air}}
        \cup {SetSlot("Hotbar1", i, 2) : i \in {None, Some(StoneId), Some(<<"honeycomb">>), Some(UnknownId)}}

SteelEntries == {Entry(t, a) : t \in 0..MaxTickBound, a \in SteelActions}

SteelSubjects == {TestSpec("steel", None, tl) : tl \in SeqsUpTo(SteelEntries, MaxSteelEntries)}

SteelInit ==
    /\ specs \in {<<s>> : s \in SteelSubjects}
    /\ adapter = "steel"
    /\ RunnerStart

SteelSpec == SteelInit /\ [][Next]_vars

(***************************************************************************)
(* Inputs: direct calls of block_matches(actual, expected).                *)
(***************************************************************************)
\* no run_tests is under way
RunnerIdleVars ==
    /\ specs = <<>>
    /\ pc = "idle"
    /\ idx = 0
    /\ world = None
    /\ player = None
    /\ timeline = EmptyTimeline
    /\ tick = 0
    /\ apos = 1
    /\ result = None
    /\ results = <<>>
    /\ summary = None
    /\ trace = <<>>
    /\ adapter = "mock"

\* no run_tests is under way and no object is under call
RunnerIdle ==
    /\ RunnerIdleVars
    /\ recv = <<>>
    /\ hist = <<>>

PropKeys == <<"powered", "properties", "facing">>
MatchKeys == {PropKeys[i] : i \in 1..MaxProps}
MatchNames == {"stone", "dirt"}
MatchIds == {<<n>> : n \in MatchNames} \cup {<<ns, n>> : ns \in {MinecraftPrefix, "mod:"}, n \in MatchNames}
ActualValues == {"true", "false", "1"}
ExpectedValues == {JString("true"), JBool(TRUE), JBool(FALSE), JNumber(1), JNull, JArray}

MapsOver(keys, values) == UNION {[ks -> values] : ks \in SUBSET keys}

MatchActuals == {BlockData_with_properties(id, m) : id \in MatchIds, m \in MapsOver(MatchKeys, ActualValues)}
MatchExpecteds == {Block(id, m) : id \in MatchIds, m \in MapsOver(MatchKeys, ExpectedValues)}

MatchInit ==
    /\ args \in [actual : MatchActuals, expected : MatchExpecteds]
    /\ ret = None
    /\ RunnerIdle

CallBlockMatches ==
    /\ ret = None
    /\ ret' = Some(block_matches(args.actual, args.expected))
    /\ UNCHANGED <<args, recv, hist, runnerVars>>

MatchNext == CallBlockMatches

MatchSpec == MatchInit /\ [][MatchNext]_vars

(***************************************************************************)
(* Inputs: direct calls of execute_action(world, player, action, tick) on  *)
(* worlds of the in-memory backend that writes have produced.              *)
(***************************************************************************)
Dirt == Block(<<"dirt">>, EmptyMap)
LeverOn == Block(<<MinecraftPrefix, "lever">>, [k \in {"powered"} |-> JBool(TRUE)])
BareAir == Block(<<"air">>, EmptyMap)

FillXs == (0 - MaxSpan)..0
FillYs == 64..(64 + MaxSpan)
FillZs == 0..MaxSpan
Corners == {<<x, y, z>> : x \in FillXs, y \in FillYs, z \in FillZs}

ActPlacements == {Placement(q, b) : q \in {P1, <<0, 64, 1>>}, b \in {Stone, LeverOn}}
ActChecks == {Check(q, b) : q \in {P1, <<0, 64, 1>>}, b \in {Stone, LeverOn, BareAir}}

ActWorlds == {SetPlacements(MockWorld_new, pl) : pl \in SeqsUpTo(ActPlacements, MaxPlacements)}
ActPlayers == {None, Some(MockPlayer_set_slot(MockPlayer_new, "Hotbar1", Some(Item_new(StoneId))))}

ActActions ==
    {AssertChecks(cs) : cs \in SeqsUpTo(ActChecks, MaxChecks) \ {<<>>}}
        \cup {Fill(<<a, b>>, w) : a \in Corners, b \in Corners, w \in {Stone, Dirt}}
        \cup {Remove(q) : q \in {P1, <<0, 64, 1>>, <<0, 65, 0>>}}
        \cup {PlaceEach(pl) : pl \in SeqsUpTo(ActPlacements, MaxPlacements)}
        \cup {Place(pl.pos, pl.block) : pl \in ActPlacements}

\* worlds of the full backend, for the calls with a Remove action
ActSteelWorlds ==
    {SetPlacements(SteelTestWorld_new, pl) :
        pl \in SeqsUpTo({Placement(q, b) : q \in {P1, <<0, 64, 1>>}, b \in {Stone, LampLit}},
                        MaxPlacements)}

ActInit ==
    /\ args \in [world : ActWorlds, player : ActPlayers, action : ActActions, tick : {0, 1}]
                \cup [world : ActSteelWorlds, player : {None},
                      action : {Remove(q) : q \in {P1, <<0, 64, 1>>, <<0, 65, 0>>}}, tick : {0, 1}]
    /\ ret = None
    /\ RunnerIdle

CallExecuteAction ==
    /\ ret = None
    /\ \E effect \in InteractionsFor(args.world, args.action) :
          ret' = Some(execute_action(args.world, args.player, args.action, args.tick, effect))
    /\ UNCHANGED <<args, recv, hist, runnerVars>>

ActNext == CallExecuteAction

ActSpec == ActInit /\ [][ActNext]_vars

(***************************************************************************)
(* Inputs: direct calls of execute_action with the player actions, on      *)
(* worlds and players of both backends.                                    *)
(***************************************************************************)
UseBackends == {"mock", "steel"}
UseWorlds(a) ==
    {FlintAdapter_create_test_world(a),
     FlintWorld_set_block(FlintAdapter_create_test_world(a), P1, Stone)}

\* the players that set_slot and select_hotbar calls have produced
UsePlayers(w) ==
    {FlintPlayer_select_hotbar(
         FlintPlayer_set_slot(FlintPlayer_set_slot(FlintWorld_create_player(w), "Hotbar1", h),
                              "OffHand", o), n) :
        h \in {None, Some(Item_with_count(StoneId, 3))},
        o \in {None, Some(Item_with_count(Honeycomb, 2))},
        n \in {1, 5}}

UseActions ==
    {UseItemOn(P1, "top", i) : i \in {None, Some(Honeycomb), Some(<<"stone">>), Some(UnknownId)}}
        \cup {SetSlot(sl, i, c) : sl \in {"Hotbar1", "OffHand"}, i \in {None, Some(StoneId)},
                                  c \in {1, 2}}
        \cup {SelectHotbar(n) : n \in {0, 1, 5, 9, 10}}

UseArgs(a) ==
    UNION {[world : {w}, player : {None} \cup {Some(p) : p \in UsePlayers(w)},
            action : UseActions, tick : {0}] : w \in UseWorlds(a)}

UseInit ==
    /\ args \in UNION {UseArgs(a) : a \in UseBackends}
    /\ ret = None
    /\ RunnerIdle

UseSpec == UseInit /\ [][ActNext]_vars

(***************************************************************************)
(* Inputs: one spec with a player setup or none, whose timeline writes a   *)
(* block, sets a slot, selects a hotbar slot and uses the hand on a block, *)
(* run on either backend.                                                  *)
(***************************************************************************)
HandInventories ==
    {EmptyMap,
     [sl \in {"Hotbar2", "OffHand"} |->
         IF sl = "Hotbar2" THEN [item |-> Honeycomb, count |-> 2]
         ELSE [item |-> StoneId, count |-> 1]]}

HandSetups ==
    {None, Some(SetupWith(None))}
        \cup {Some(SetupWith(Some(PlayerConfig(inv, n)))) : inv \in HandInventories, n \in {0, 4, 10}}

HandTimeline(sl, id, c, n, item, t1, t2, t3) ==
    <<Entry(t1, Place(P1, Stone)), Entry(t1, SetSlot(sl, Some(id), c)),
      Entry(t2, SelectHotbar(n)), Entry(t3, UseItemOn(P1, "top", item))>>

HandTimelines ==
    {HandTimeline(sl, id, c, n, item, t1, t2, t3) :
        sl \in {"Hotbar1", "OffHand"}, id \in {StoneId, <<"sword">>}, c \in {1, 3},
        n \in {0, 1, 2}, item \in {None, Some(Honeycomb)},
        t1 \in 0..MaxTickBound, t2 \in 0..MaxTickBound, t3 \in 0..MaxTickBound}

HandInit ==
    /\ specs \in {<<TestSpec("hand", su, tl)>> : su \in HandSetups, tl \in HandTimelines}
    /\ adapter \in {"mock", "steel"}
    /\ RunnerStart

HandSpec == HandInit /\ [][Next]_vars

(***************************************************************************)
(* Direct calls of the FlintPlayer methods on two players of one world, of *)
(* either backend.  recv holds the two players, hist the calls made.       *)
(***************************************************************************)
SetSlotCall(i, slot, item) == [on |-> i, op |-> "set_slot", slot |-> slot, item |-> item]
SelectHotbarCall(i, n) == [on |-> i, op |-> "select_hotbar", slot |-> n]

\* arguments of the calls; the slot number of select_hotbar is a u8
CallSlots == {"Hotbar1", "OffHand"}
CallItems == {None, Some(Item_with_count(StoneId, 1)), Some(Item_with_count(Honeycomb, 2))}
CallNumbers == {0, 1, 5, 9, 10, U8Max}

PlayerInit ==
    /\ \E a \in UseBackends :
          LET w == FlintAdapter_create_test_world(a)
          IN recv = <<FlintWorld_create_player(w), FlintWorld_create_player(w)>>
    /\ hist = <<>>
    /\ args = None
    /\ ret = None
    /\ RunnerIdleVars

\* `player.set_slot(slot, item)` on one of the players
PlayerSetSlot ==
    /\ Len(hist) < MaxCalls
    /\ \E i \in 1..Len(recv), sl \in CallSlots, it \in CallItems :
          /\ recv' = [recv EXCEPT ![i] = FlintPlayer_set_slot(@, sl, it)]
          /\ hist' = Append(hist, SetSlotCall(i, sl, it))
    /\ UNCHANGED <<args, ret, runnerVars>>

\* `player.select_hotbar(slot)` on one of the players
PlayerSelectHotbar ==
    /\ Len(hist) < MaxCalls
    /\ \E i \in 1..Len(recv), n \in CallNumbers :
          /\ recv' = [recv EXCEPT ![i] = FlintPlayer_select_hotbar(@, n)]
          /\ hist' = Append(hist, SelectHotbarCall(i, n))
    /\ UNCHANGED <<args, ret, runnerVars>>

PlayerNext == PlayerSetSlot \/ PlayerSelectHotbar

PlayerSpec == PlayerInit /\ [][PlayerNext]_vars

(***************************************************************************)
(* Direct calls of the FlintWorld methods on one world, of either backend. *)
(* recv holds the world, hist the calls made, ret what the last call       *)
(* returned.                                                               *)
(***************************************************************************)
DoTickCall == [op |-> "do_tick"]
SetBlockCall(pos, block) == [op |-> "set_block", pos |-> pos, block |-> block]
GetBlockCall(pos) == [op |-> "get_block", pos |-> pos]
CreatePlayerCall == [op |-> "create_player"]

CallPositions == {P1, <<1, 64, 0>>}

Repeater == Block(<<"repeater">>, [k \in {"delay", "locked"} |->
                                      IF k = "delay" THEN JNumber(1) ELSE JNull])

\* the blocks written: on the full backend the property values are strings
WorldBlocks(w) ==
    IF IsSteelTestWorld(w) THEN {Stone, LampLit, Block(UnknownId, EmptyMap)}
    ELSE {Stone, LeverOn, Repeater, BareAir}

WorldInit ==
    /\ \E a \in UseBackends : recv = <<FlintAdapter_create_test_world(a)>>
    /\ hist = <<>>
    /\ args = None
    /\ ret = None
    /\ RunnerIdleVars

\* `world.do_tick()`
WorldDoTick ==
    /\ Len(hist) < MaxCalls
    /\ recv' = <<FlintWorld_do_tick(recv[1])>>
    /\ hist' = Append(hist, DoTickCall)
    /\ ret' = None
    /\ UNCHANGED <<args, runnerVars>>

\* `world.set_block(pos, &block)`
WorldSetBlock ==
    /\ Len(hist) < MaxCalls
    /\ \E q \in CallPositions, b \in WorldBlocks(recv[1]) :
          /\ recv' = <<FlintWorld_set_block(recv[1], q, b)>>
          /\ hist' = Append(hist, SetBlockCall(q, b))
    /\ ret' = None
    /\ UNCHANGED <<args, runnerVars>>

\* `world.get_block(pos)`, through &self
WorldGetBlock ==
    /\ Len(hist) < MaxCalls
    /\ \E q \in CallPositions :
          /\ ret' = Some(FlintWorld_get_block(recv[1], q))
          /\ hist' = Append(hist, GetBlockCall(q))
    /\ UNCHANGED <<recv, args, runnerVars>>

\* `world.create_player()`: neither implementation assigns a field of the world
WorldCreatePlayer ==
    /\ Len(hist) < MaxCalls
    /\ ret' = Some(FlintWorld_create_player(recv[1]))
    /\ hist' = Append(hist, CreatePlayerCall)
    /\ UNCHANGED <<recv, args, runnerVars>>

WorldNext == WorldDoTick \/ WorldSetBlock \/ WorldGetBlock \/ WorldCreatePlayer

WorldSpec == WorldInit /\ [][WorldNext]_vars

(***************************************************************************)
(* Inputs: direct calls of glob_match(pattern, text).                      *)
(***************************************************************************)
PatternChars == {"a", "b", Star, QuestionMark}
TextChars == {"a", "b", "x"}
GlobPatterns == SeqsUpTo(PatternChars, MaxPattern) \cup {<<Star, "a", Star, "b", Star>>}
GlobTexts ==
    SeqsUpTo(TextChars, MaxText)
        \cup {<<"x", "a", "x", "b", "x">>, <<"a", "a", "a", "b", "b", "b">>}

GlobInit ==
    /\ args \in [pattern : GlobPatterns, text : GlobTexts]
    /\ ret = None
    /\ RunnerIdle

CallGlobMatch ==
    /\ ret = None
    /\ ret' = Some(glob_match(args.pattern, args.text))
    /\ UNCHANGED <<args, recv, hist, runnerVars>>

GlobNext == CallGlobMatch

GlobSpec == GlobInit /\ [][GlobNext]_vars

(***************************************************************************)
(* Inputs: direct calls of TestFilter::matches(spec) and is_empty().  Of a *)
(* TestSpec the filter reads the name and the tags.                        *)
(***************************************************************************)
FilterNames == {<<"a">>, <<"A">>, <<"a", "b">>, <<"b">>}
FilterTags == {"redstone", "slow"}
FilterPatterns == {<<"a", Star>>, <<QuestionMark>>, <<"A">>}

Filters ==
    {TestFilter(tg, np, en) : tg \in SeqsUpTo(FilterTags, MaxTags),
                              np \in SeqsUpTo(FilterPatterns, MaxPatterns),
                              en \in {None} \cup {Some(n) : n \in FilterNames}}
FilterSubjects == {[name |-> n, tags |-> tg] : n \in FilterNames, tg \in SeqsUpTo(FilterTags, MaxTags)}

FilterInit ==
    /\ args \in [filter : Filters, spec : FilterSubjects]
    /\ ret = None
    /\ RunnerIdle

CallMatches ==
    /\ ret = None
    /\ ret' = Some([fn |-> "matches", value |-> TestFilter_matches(args.filter, args.spec)])
    /\ UNCHANGED <<args, recv, hist, runnerVars>>

CallIsEmpty ==
    /\ ret = None
    /\ ret' = Some([fn |-> "is_empty", value |-> TestFilter_is_empty(args.filter)])
    /\ UNCHANGED <<args, recv, hist, runnerVars>>

FilterNext == CallMatches \/ CallIsEmpty

FilterSpec == FilterInit /\ [][FilterNext]_vars

(***************************************************************************)
(* Inputs: one spec on the in-memory backend that writes a block and       *)
(* asserts a block, over blocks of every id and property map of the bounds. *)
(***************************************************************************)
RunIds == {<<"stone">>, AirId, ModStoneId}
RunBlocks ==
    {Block(id, m) : id \in RunIds,
                    m \in MapsOver(MatchKeys, {JString("true"), JBool(FALSE), JNumber(1)})}
RunPositions == {P1, <<1, 64, 0>>}

\* Place{p, b} followed by Assert{(p, b)} at the same tick
PlaceThenAssert(q, b, t) == <<Entry(t, Place(q, b)), Entry(t, AssertChecks(<<Check(q, b)>>))>>

BlockTimelines ==
    {PlaceThenAssert(q, b, t) : q \in RunPositions, b \in RunBlocks, t \in 0..MaxTickBound}
        \cup {<<Entry(t, AssertChecks(<<Check(q, b)>>))>> :
                q \in RunPositions, b \in RunBlocks, t \in 0..MaxTickBound}
        \cup {<<Entry(t0, Place(q0, Stone)), Entry(t, AssertChecks(<<Check(q, b)>>))>> :
                q0 \in RunPositions, t0 \in 0..MaxTickBound,
                q \in RunPositions, b \in RunBlocks, t \in 0..MaxTickBound}

BlockInit ==
    /\ specs \in {<<TestSpec("blocks", None, tl)>> : tl \in BlockTimelines}
    /\ adapter = "mock"
    /\ RunnerStart

BlockSpec == BlockInit /\ [][Next]_vars

(***************************************************************************)
(* Inputs: one spec on the in-memory backend whose timeline writes,        *)
(* removes and asserts the block of one position, in every order.          *)
(***************************************************************************)
OrderActions ==
    { Place(P1, Stone), Place(P1, Dirt), Remove(P1),
      AssertChecks(<<Check(P1, Stone)>>), AssertChecks(<<Check(P1, Air)>>) }

OrderEntries == {Entry(t, a) : t \in 0..MaxTickBound, a \in OrderActions}

OrderInit ==
    /\ specs \in {<<TestSpec("order", None, tl)>> : tl \in SeqsUpTo(OrderEntries, MaxEntries)}
    /\ adapter = "mock"
    /\ RunnerStart

OrderSpec == OrderInit /\ [][Next]_vars

(***************************************************************************)
(* Inputs: one spec of Place, PlaceEach, Fill, Remove and Assert actions,  *)
(* some with an identifier the registry does not hold, run by a runner on  *)
(* the in-memory backend and then by a second runner on the full backend.  *)
(* `hist` keeps the summary of the first run.                              *)
(***************************************************************************)
ModStone == Block(ModStoneId, EmptyMap)

BothActions ==
    {Place(P1, b) : b \in {Stone, ModStone}}
        \cup { PlaceEach(<<Placement(P1, ModStone), Placement(<<1, 64, 0>>, Stone)>>),
               Fill(<<<<1, 64, 0>>, P1>>, Stone),
               Remove(P1) }
        \cup {AssertChecks(<<Check(P1, b)>>) : b \in {Stone, ModStone, Air}}

BothEntries == {Entry(t, a) : t \in 0..MaxTickBound, a \in BothActions}

BothInit ==
    /\ specs \in {<<TestSpec("both", None, tl)>> : tl \in SeqsUpTo(BothEntries, MaxEntries)}
    /\ adapter = "mock"
    /\ RunnerStart

\* `TestRunner::new(&SteelAdapter).run_tests(&specs)` after the run on the mock
RunOnFullBackend ==
    /\ pc = "done"
    /\ adapter = "mock"
    /\ adapter' = "steel"
    /\ hist' = <<Unwrap(summary)>>
    /\ pc' = "next"
    /\ idx' = 0
    /\ world' = None
    /\ player' = None
    /\ timeline' = EmptyTimeline
    /\ tick' = 0
    /\ apos' = 1
    /\ result' = None
    /\ results' = <<>>
    /\ summary' = None
    /\ trace' = <<>>
    /\ UNCHANGED <<specs, args, ret, recv>>

BothNext == Next \/ RunOnFullBackend

BothSpec == BothInit /\ [][BothNext]_vars

(***************************************************************************)
(* Inputs: direct calls of TimelineAggregate::from_tests(tests): one spec  *)
(* with every kind of action and an offset, and lists of specs, some with  *)
(* an empty timeline, some with entries out of tick order.                 *)
(***************************************************************************)
FarOffset == <<1, -2, 3>>
AggOffsets == {ZeroOffset, FarOffset}

AggActions ==
    { Place(P1, Stone),
      PlaceEach(<<Placement(P1, Stone), Placement(<<2, 64, 0>>, Dirt)>>),
      Fill(<<P1, <<1, 65, 1>>>>, Stone),
      Remove(<<0, 65, 0>>),
      AssertChecks(<<Check(P1, Stone), Check(<<0, 65, 0>>, Air)>>),
      UseItemOn(<<0, 63, 0>>, "top", None),
      SelectHotbar(2) }

AggEntries == {Entry(t, a) : t \in 0..MaxTickBound, a \in AggActions}
MergeEntries ==
    {Entry(t, a) : t \in 0..MaxTickBound, a \in {Place(P1, Stone), AssertChecks(<<Check(P1, Stone)>>)}}

EmptySpec == TestSpec("empty", None, <<>>)

\* entries out of tick order, the last tick beyond those of the subject
LateSpec ==
    TestSpec("late", None,
             <<Entry(MaxTickBound + 1, Place(P1, Stone)), Entry(0, Remove(P1)),
               Entry(0, Remove(P1))>>)

AggRoles == {"subject", "empty", "late"}

TestsOf(shape, subject) ==
    [i \in 1..Len(shape) |->
        CASE shape[i] = "subject" -> subject
          [] shape[i] = "empty" -> <<EmptySpec, FarOffset>>
          [] OTHER -> <<LateSpec, ZeroOffset>>]

AggTests ==
    {<<<<TestSpec("subject", None, tl), off>>>> :
        tl \in SeqsUpTo(AggEntries, MaxEntries), off \in AggOffsets}
      \cup {TestsOf(shape, <<TestSpec("subject", None, tl), off>>) :
              shape \in SeqsUpTo(AggRoles, MaxSpecs),
              tl \in SeqsUpTo(MergeEntries, MaxEntries), off \in AggOffsets}

AggInit ==
    /\ args \in [tests : AggTests]
    /\ ret = None
    /\ RunnerIdle

CallFromTests ==
    /\ ret = None
    /\ ret' = Some(TimelineAggregate_from_tests(args.tests))
    /\ UNCHANGED <<args, recv, hist, runnerVars>>

AggNext == CallFromTests

AggSpec == AggInit /\ [][AggNext]_vars

(***************************************************************************)
(* Inputs: direct calls of to_string() on the block read from a world of   *)
(* the in-memory backend, whose property map iterates in any order, and of *)
(* execute_action with an Assert on that block.                            *)
(***************************************************************************)
FmtIds == {StoneId, <<"lever">>}
FmtPlaced == {Block(id, mp) : id \in FmtIds, mp \in MapsOver(MatchKeys, {JString("true"), JBool(FALSE)})}
FmtExpecteds ==
    {Block(id, mp) : id \in FmtIds, mp \in MapsOver(MatchKeys, {JString("true"), JNumber(1), JNull, JArray})}

FmtWorld(placed) == MockWorld_set_block(MockWorld_new, P1, placed)

FmtInit ==
    /\ args \in UNION {[placed : {b}, expected : FmtExpecteds,
                        order : IterationOrders(b.properties)] : b \in FmtPlaced}
    /\ ret = None
    /\ RunnerIdle

\* `world.get_block(pos).to_string()`
CallToString ==
    /\ ret = None
    /\ ret' = Some([fn |-> "to_string",
                    value |-> BlockData_fmt(MockWorld_get_block(FmtWorld(args.placed), P1), args.order)])
    /\ UNCHANGED <<args, recv, hist, runnerVars>>

\* execute_action(world, None, Assert{[(pos, expected)]}, 0)
CallAssert ==
    /\ ret = None
    /\ ret' = Some([fn |-> "execute_action",
                    value |-> execute_action(FmtWorld(args.placed), None,
                                             AssertChecks(<<Check(P1, args.expected)>>), 0,
                                             "none")])
    /\ UNCHANGED <<args, recv, hist, runnerVars>>

FmtNext == CallToString \/ CallAssert

FmtSpec == FmtInit /\ [][FmtNext]_vars

(***************************************************************************)
(* src/lib.rs: init() and runtime(), called from several threads.  `recv`  *)
(* holds the statics (the three `Once` cells of init_config, init_registry *)
(* and init_behaviors, FLINT_RUNTIME) and each thread's position; `args`   *)
(* holds each thread's calls; `hist` the values returned by runtime().     *)
(* A thread that finds a cell being initialised waits for it.  The closure *)
(* of FLINT_RUNTIME ends in `.expect("Failed to create Flint runtime")`:   *)
(* when the build fails it panics, the cell stays empty and the call of    *)
(* init() or runtime() that ran it ends in that panic.                     *)
(***************************************************************************)
Threads == 1..MaxThreads

OnceCells == {"config", "registry", "behaviors", "runtime"}

\* variant: a caller that finds the closure running runs it as well
Once_call_once_unguarded(state) ==
    IF state = "complete" THEN "skip" ELSE "run"

\* std::sync::Once::call_once and OnceLock::get_or_init: what a caller does
\* on a cell that is incomplete, running or complete
Once_call_once(state) ==
    CASE state = "incomplete" -> "run"
      [] state = "running" -> "wait"
      [] state = "complete" -> "skip"

\* init(): init_config(); init_registry(); init_behaviors(); init_runtime()
init_body == <<"config", "registry", "behaviors", "runtime">>
\* runtime(): init_runtime(); FLINT_RUNTIME.get().expect(..).clone()
runtime_body == <<"runtime">>

\* `panicked` holds the numbers of the thread's calls that ended in a panic
ThreadIdle(todo) ==
    [todo |-> todo, body |-> <<>>, running |-> "none", get |-> FALSE, panicked |-> {}]

InitPrograms ==
    { <<"init">>, <<"runtime">>, <<"init", "init">>, <<"init", "runtime">>,
      <<"runtime", "runtime">> }

OnceInit ==
    /\ args \in [Threads -> InitPrograms]
    /\ recv = [once |-> [c \in OnceCells |-> "incomplete"],
               entered |-> [c \in OnceCells |-> 0],
               runs |-> [c \in OnceCells |-> 0],
               FLINT_RUNTIME |-> None,
               threads |-> [t \in Threads |-> ThreadIdle(args[t])]]
    /\ hist = <<>>
    /\ ret = None
    /\ RunnerIdleVars

\* a thread enters init() or runtime()
BeginCall(t) ==
    LET th == recv.threads[t]
    IN /\ th.body = <<>> /\ th.running = "none" /\ ~th.get
       /\ th.todo # <<>>
       /\ recv' = [recv EXCEPT !.threads[t] =
                      [todo |-> Tail(th.todo),
                       body |-> IF Head(th.todo) = "init" THEN init_body ELSE runtime_body,
                       running |-> "none",
                       get |-> Head(th.todo) = "runtime",
                       panicked |-> th.panicked]]
       /\ UNCHANGED <<args, ret, hist, runnerVars>>

\* `INIT.call_once(..)` / `FLINT_RUNTIME.get_or_init(..)` is reached: the
\* thread starts the closure, or returns at once when the cell is complete
EnterOnce(t) ==
    LET th == recv.threads[t]
        c == Head(th.body)
    IN /\ th.body # <<>> /\ th.running = "none"
       /\ Once_call_once(recv.once[c]) # "wait"
       /\ recv' = IF Once_call_once(recv.once[c]) = "run"
                  THEN [recv EXCEPT !.once[c] = "running", !.entered[c] = @ + 1,
                                    !.threads[t].running = c]
                  ELSE [recv EXCEPT !.threads[t].body = Tail(th.body)]
       /\ UNCHANGED <<args, ret, hist, runnerVars>>

\* the closure of the cell returns: the cell is complete; the closure of
\* FLINT_RUNTIME has built a runtime, which the cell now holds
FinishOnce(t) ==
    LET th == recv.threads[t]
        c == th.running
    IN /\ c # "none"
       /\ recv' = [recv EXCEPT !.once[c] = "complete",
                               !.runs[c] = @ + 1,
                               !.FLINT_RUNTIME = IF c = "runtime" THEN Some(recv.runs[c] + 1) ELSE @,
                               !.threads[t].running = "none",
                               !.threads[t].body = Tail(th.body)]
       /\ UNCHANGED <<args, ret, hist, runnerVars>>

\* the closure of FLINT_RUNTIME panics in `.expect("Failed to create Flint
\* runtime")`: get_or_init stores nothing and leaves the cell empty for the
\* next caller, and the panic ends the thread's call of init() or runtime()
PanicOnce(t) ==
    LET th == recv.threads[t]
    IN /\ th.running = "runtime"
       /\ recv' = [recv EXCEPT !.once["runtime"] = "incomplete",
                               !.threads[t].running = "none",
                               !.threads[t].body = <<>>,
                               !.threads[t].get = FALSE,
                               !.threads[t].panicked = @ \cup {Len(args[t]) - Len(th.todo)}]
       /\ UNCHANGED <<args, ret, hist, runnerVars>>

\* runtime(), lines 148-151: `FLINT_RUNTIME.get().expect("Runtime not initialized").clone()`
GetRuntime(t) ==
    LET th == recv.threads[t]
    IN /\ th.body = <<>> /\ th.running = "none" /\ th.get
       /\ hist' = Append(hist, [thread |-> t,
                                value |-> IF IsSome(recv.FLINT_RUNTIME)
                                          THEN recv.FLINT_RUNTIME ELSE <<"panic">>])
       /\ recv' = [recv EXCEPT !.threads[t].get = FALSE]
       /\ UNCHANGED <<args, ret, runnerVars>>

OnceNext ==
    \E t \in Threads :
        BeginCall(t) \/ EnterOnce(t) \/ FinishOnce(t) \/ PanicOnce(t) \/ GetRuntime(t)

OnceSpec == OnceInit /\ [][OnceNext]_vars

(***************************************************************************)
(* src/test_connection.rs: one FlintConnection shared by clones across     *)
(* threads.  `recv` holds the shared state (the event log, the holder of   *)
(* its mutex, the atomic closed flag) and each thread's position; `args`   *)
(* holds each thread's calls; `hist` records, for every event pushed, the  *)
(* value of the closed flag at that moment.                                *)
(***************************************************************************)
PacketSent(data) == [event |-> "PacketSent", data |-> data]
Disconnected(reason) == [event |-> "Disconnected", reason |-> reason]

\* the packets of call n of thread t: one for send_encoded, MaxBundle for
\* send_encoded_bundle, each with data (t, n, k)
PacketsOf(call, t, n) ==
    IF call = "send_encoded" THEN <<PacketSent(<<t, n, 1>>)>>
    ELSE [k \in 1..MaxBundle |-> PacketSent(<<t, n, k>>)]

ConnPrograms ==
    { <<"send_encoded">>, <<"send_encoded_bundle">>, <<"close">>, <<"disconnect_with_reason">>,
      <<"send_encoded", "close">>, <<"disconnect_with_reason", "send_encoded_bundle">>,
      <<"close", "send_encoded">>, <<"send_encoded", "clear_events">>,
      <<"clear_events", "disconnect_with_reason">> }

ConnThreadIdle(todo) == [todo |-> todo, at |-> "idle", pending |-> <<>>, calls |-> 0]

\* FlintConnection::new(): an empty log, closed = false
FlintConnection_new == [events |-> <<>>, closed |-> FALSE, lock |-> 0]

ConnInit ==
    /\ args \in [Threads -> ConnPrograms]
    /\ recv = [conn |-> FlintConnection_new,
               threads |-> [t \in Threads |-> ConnThreadIdle(args[t])]]
    /\ hist = <<>>
    /\ ret = None
    /\ RunnerIdleVars

\* send_encoded, send_encoded_bundle: `if !self.closed.load(Ordering::Relaxed)`;
\* the call returns when the flag is set
LoadClosed(t) ==
    LET th == recv.threads[t]
    IN /\ th.at = "idle" /\ th.todo # <<>>
       /\ Head(th.todo) \in {"send_encoded", "send_encoded_bundle"}
       /\ recv' = [recv EXCEPT !.threads[t] =
                      IF recv.conn.closed
                      THEN [th EXCEPT !.todo = Tail(@), !.calls = @ + 1]
                      ELSE [th EXCEPT !.at = "lock", !.calls = @ + 1,
                                      !.pending = PacketsOf(Head(th.todo), t, th.calls + 1)]]
       /\ UNCHANGED <<args, ret, hist, runnerVars>>

\* disconnect_with_reason is entered: it has one Disconnected event to push
BeginDisconnect(t) ==
    LET th == recv.threads[t]
    IN /\ th.at = "idle" /\ th.todo # <<>>
       /\ Head(th.todo) = "disconnect_with_reason"
       /\ recv' = [recv EXCEPT !.threads[t] =
                      [th EXCEPT !.at = "lock", !.calls = @ + 1,
                                 !.pending = <<Disconnected("reason")>>]]
       /\ UNCHANGED <<args, ret, hist, runnerVars>>

\* `self.events.lock()`: the thread waits until the mutex is free
LockEvents(t) ==
    /\ recv.threads[t].at = "lock"
    /\ recv.conn.lock = 0
    /\ recv' = [recv EXCEPT !.conn.lock = t, !.threads[t].at = "push"]
    /\ UNCHANGED <<args, ret, hist, runnerVars>>

\* `events.push(..)` under the lock
PushEvent(t) ==
    LET th == recv.threads[t]
    IN /\ th.at = "push" /\ th.pending # <<>>
       /\ recv' = [recv EXCEPT !.conn.events = Append(@, Head(th.pending)),
                               !.threads[t].pending = Tail(@)]
       /\ hist' = Append(hist, recv.conn.closed)
       /\ UNCHANGED <<args, ret, runnerVars>>

\* the guard of the mutex is dropped; disconnect_with_reason goes on to its store
UnlockEvents(t) ==
    LET th == recv.threads[t]
    IN /\ th.at = "push" /\ th.pending = <<>>
       /\ recv' = [recv EXCEPT !.conn.lock = 0,
                               !.threads[t] =
                                  IF Head(th.todo) = "disconnect_with_reason"
                                  THEN [th EXCEPT !.at = "store"]
                                  ELSE [th EXCEPT !.at = "idle", !.todo = Tail(@)]]
       /\ UNCHANGED <<args, ret, hist, runnerVars>>

\* clear_events: `self.events.lock().clear()`; the mutex is taken, the log
\* emptied and the mutex dropped within the one statement.  `hist` holds
\* the flag seen at each push of the log, and is emptied with it
ClearEvents(t) ==
    LET th == recv.threads[t]
    IN /\ th.at = "idle" /\ th.todo # <<>>
       /\ Head(th.todo) = "clear_events"
       /\ recv.conn.lock = 0
       /\ recv' = [recv EXCEPT !.conn.events = <<>>,
                               !.threads[t] = [th EXCEPT !.todo = Tail(@), !.calls = @ + 1]]
       /\ hist' = <<>>
       /\ UNCHANGED <<args, ret, runnerVars>>

\* close, and the end of disconnect_with_reason: `self.closed.store(true, Ordering::Relaxed)`
StoreClosed(t) ==
    LET th == recv.threads[t]
    IN /\ th.todo # <<>>
       /\ \/ th.at = "store"
          \/ th.at = "idle" /\ Head(th.todo) = "close"
       /\ recv' = [recv EXCEPT !.conn.closed = TRUE,
                               !.threads[t] =
                                  [th EXCEPT !.at = "idle", !.todo = Tail(@),
                                             !.calls = IF th.at = "idle" THEN @ + 1 ELSE @]]
       /\ UNCHANGED <<args, ret, hist, runnerVars>>

ConnNext ==
    \E t \in Threads :
        \/ LoadClosed(t) \/ BeginDisconnect(t) \/ LockEvents(t)
        \/ PushEvent(t) \/ UnlockEvents(t) \/ ClearEvents(t) \/ StoreClosed(t)

ConnSpec == ConnInit /\ [][ConnNext]_vars

(***************************************************************************)
(* Vocabulary of the properties.                                           *)
(***************************************************************************)
P2 == <<1, 64, 0>>
ProbePositions == {P1, P2}

InTest == pc \in {"setup", "exec", "returned"}
TheResult == Unwrap(result)

IsActionCall(e) == e.op = "action"
IsDoTickCall(e) == e.op = "do_tick"
IsCreatePlayerCall(e) == e.op = "create_player"
IsScheduleCall(e) == e.op \in {"action", "do_tick"}

ActionCalls == SelectSeq(trace, IsActionCall)
ActionOf(e) == timeline.timeline[e.tick][e.index][2].action_type

IsPrefix(a, b) == Len(a) <= Len(b) /\ SubSeq(b, 1, Len(a)) = a

BucketOfTick(t) == IF t \in DOMAIN timeline.timeline THEN timeline.timeline[t] ELSE <<>>

\* the calls of a run that no assertion stops: per tick, its actions in bucket
\* order, each on a world advanced `tick` times, then one do_tick
RECURSIVE FullSchedule(_)
FullSchedule(t) ==
    IF t > timeline.max_tick THEN <<>>
    ELSE [i \in 1..Len(BucketOfTick(t)) |-> CallAction(t, i, t)]
            \o <<CallDoTick(t)>> \o FullSchedule(t + 1)

SpecMaxTick(spec) == SetMax({spec.timeline[k].at : k \in 1..Len(spec.timeline)})

HasFailure(r) == \E i \in 1..Len(r.assertions) : r.assertions[i].kind = "Failure"

(***************************************************************************)
(* Properties of run_test and run_tests.                                   *)
(***************************************************************************)

\* C1: once an Assert action at tick t has failed, the result ends with exactly
\* one Failure carrying tick t and the position of a check of that action,
\* success is false, and the failing action is the last call of the run: no
\* later action of the bucket, no do_tick and no action of a later tick follows.
C1_FailureStopsRun ==
    (IsSome(result) /\ ~TheResult.success) =>
        LET n == Len(TheResult.assertions)
            acts == ActionCalls
            lastAct == acts[Len(acts)]
        IN /\ n >= 1
           /\ TheResult.assertions[n].kind = "Failure"
           /\ \A i \in 1..(n - 1) : TheResult.assertions[i].kind = "Success"
           /\ Len(acts) >= 1
           /\ trace[Len(trace)] = lastAct
           /\ TheResult.assertions[n].fail.tick = lastAct.tick
           /\ ActionOf(lastAct).type = "Assert"
           /\ \E k \in 1..Len(ActionOf(lastAct).checks) :
                 ActionOf(lastAct).checks[k].pos = TheResult.assertions[n].fail.position
           /\ \A j \in 1..Len(trace) :
                 IsScheduleCall(trace[j]) =>
                    /\ trace[j].tick <= lastAct.tick
                    /\ (IsDoTickCall(trace[j]) => trace[j].tick < lastAct.tick)
                    /\ (IsActionCall(trace[j]) /\ trace[j].tick = lastAct.tick
                            => trace[j].index <= lastAct.index)

\* a failed run that left a later action of the failing bucket and a later tick unexecuted
C1_Witness ==
    /\ pc = "returned"
    /\ ~TheResult.success
    /\ apos < Len(Bucket)
    /\ tick < timeline.max_tick

\* C2: the action and do_tick calls of a run are a prefix of the full schedule
\* (ticks 0..=max_tick in increasing order, each tick's actions in bucket order
\* on a world advanced exactly `tick` times, then exactly one do_tick), and are
\* the whole schedule when the run returns without assertion failure.
C2_TickOrder ==
    InTest =>
        /\ IsPrefix(SelectSeq(trace, IsScheduleCall), FullSchedule(0))
        /\ (pc = "returned" /\ TheResult.success
                => SelectSeq(trace, IsScheduleCall) = FullSchedule(0))

\* a successful run that executed an action at a tick after the first
C2_Witness ==
    /\ pc = "returned"
    /\ TheResult.success
    /\ \E j \in 1..Len(trace) : IsActionCall(trace[j]) /\ trace[j].tick >= 1

IsAssertEntry(e) == e[2].action_type.type = "Assert"
AssertCountAt(t) == Len(SelectSeq(BucketOfTick(t), IsAssertEntry))
SuccessCountAt(r, t) == Cardinality({i \in 1..Len(r.assertions) : r.assertions[i] = AssertionSuccess(t)})

\* C3 as stated: every tick that holds an Assert action and whose actions have
\* all been executed without failure has exactly one Passed(tick) entry.
C3_OnePassedPerTick ==
    InTest =>
        \A t \in 0..(tick - 1) : AssertCountAt(t) >= 1 => SuccessCountAt(TheResult, t) = 1

\* C3 (amended): every tick whose actions have all been executed without
\* failure has one Passed(tick) entry per Assert action of its bucket.
C3_OnePassedPerAssertAction ==
    InTest =>
        \A t \in 0..(tick - 1) : SuccessCountAt(TheResult, t) = AssertCountAt(t)

\* a tick with two passing Assert actions has been processed
C3_Witness ==
    /\ InTest
    /\ \E t \in 0..(tick - 1) : AssertCountAt(t) = 2 /\ SuccessCountAt(TheResult, t) = 2

\* C4: every result of a run without failed assertion has success = true and
\* total_ticks = the largest tick of the spec's timeline (0 if it is empty);
\* every result with a failed assertion at tick t has total_ticks = t.
ResultTicksOk(r, spec) ==
    IF HasFailure(r)
    THEN r.total_ticks = r.assertions[Len(r.assertions)].fail.tick
    ELSE r.success /\ r.total_ticks = SpecMaxTick(spec)

C4_SuccessAndTotalTicks ==
    /\ \A i \in 1..Len(results) : ResultTicksOk(results[i], specs[i])
    /\ (pc = "returned" => /\ ResultTicksOk(TheResult, CurrentSpec)
                           /\ (HasFailure(TheResult) => TheResult.total_ticks = tick))

\* a batch with a test that failed at a tick after 0 and a test that passed over more than one tick
C4_Witness ==
    /\ pc = "done"
    /\ \E i \in 1..Len(results) : HasFailure(results[i]) /\ results[i].total_ticks >= 1
    /\ \E i \in 1..Len(results) : ~HasFailure(results[i]) /\ results[i].total_ticks >= 1

CreatePlayerCount == Len(SelectSeq(trace, IsCreatePlayerCall))
IsPlayerAction(a) == a.type \in {"UseItemOn", "SetSlot", "SelectHotbar"}
ExecutedPlayerActions == {j \in 1..Len(trace) : IsActionCall(trace[j]) /\ IsPlayerAction(ActionOf(trace[j]))}
HasPlayerSetup(spec) == IsSome(spec.setup) /\ IsSome(Unwrap(spec.setup).player)

\* C5: during a run create_player is called at most once, and not at all while
\* the spec has no player setup and no UseItemOn, SetSlot or SelectHotbar has
\* been executed; the player the run holds is that one player, so what the
\* setup put into a slot is still there unless an action of the run overwrote it.
C5_PlayerCreatedAtMostOnce ==
    InTest =>
        /\ CreatePlayerCount <= 1
        /\ (IsSome(player) <=> CreatePlayerCount = 1)
        /\ (~HasPlayerSetup(CurrentSpec) /\ ExecutedPlayerActions = {}
                => CreatePlayerCount = 0)
        /\ (pc # "setup" /\ HasPlayerSetup(CurrentSpec)
                => LET cfg == Unwrap(Unwrap(CurrentSpec.setup).player)
                   IN \A sl \in DOMAIN cfg.inventory :
                        \/ \E j \in ExecutedPlayerActions :
                              \/ ActionOf(trace[j]).type = "UseItemOn"
                              \/ ActionOf(trace[j]).type = "SetSlot" /\ ActionOf(trace[j]).slot = sl
                        \/ MockPlayer_get_slot(Unwrap(player), sl)
                              = Some(Item_with_count(cfg.inventory[sl].item, cfg.inventory[sl].count)))

\* a run with a player setup that has executed two player actions
C5_Witness ==
    /\ pc = "returned"
    /\ HasPlayerSetup(CurrentSpec)
    /\ Cardinality(ExecutedPlayerActions) = 2
    /\ CreatePlayerCount = 1

\* C6: every run starts on its own world: when run_test has created its world
\* and nothing else, the world is at tick 0, every position reads air and there
\* is no player, whatever the earlier tests of the batch wrote; a spec that
\* only asserts air at tick 0 therefore passes wherever it stands in the batch.
C6_FreshWorldPerTest ==
    /\ pc = "setup" =>
          /\ IsSome(world)
          /\ MockWorld_current_tick(Unwrap(world)) = 0
          /\ \A q \in ProbePositions :
                MockWorld_get_block(Unwrap(world), q) = BlockData_new(AirId)
          /\ player = None
    /\ \A i \in 1..Len(results) :
          specs[i].timeline = <<Entry(0, AssertChecks(<<Check(P1, Air)>>))>> => results[i].success

\* the second test starts after a first test that wrote a block, ticked and created a player
C6_Witness ==
    /\ pc = "setup"
    /\ idx = 2
    /\ specs[1] = DirtySpec
    /\ results[1].total_ticks = 1

\* C7: two runs of the same spec yield the same success flag, the same
\* total_ticks and the same sequence of assertion outcomes.
C7_SameSpecSameResult ==
    \A i, j \in 1..Len(results) : specs[i] = specs[j] => results[i] = results[j]

\* the same spec, with a failing assertion after a write, has been run twice
C7_Witness ==
    /\ Len(results) = 2
    /\ specs[1] = specs[2]
    /\ specs[1].name = "subject"
    /\ HasFailure(results[1])

\* C8: the specs are run one after the other in input order: a test is entered
\* only when all earlier specs have their result, the i-th result is that of
\* the i-th spec, and the summary holds one result per spec in input order.
C8_SequentialInOrder ==
    /\ \A i \in 1..Len(results) : results[i].test_name = specs[i].name
    /\ (InTest => Len(results) = idx - 1)
    /\ (pc = "next" => Len(results) = idx)
    /\ (pc = "done" =>
          /\ Len(Unwrap(summary).results) = Len(specs)
          /\ \A i \in 1..Len(specs) : Unwrap(summary).results[i].test_name = specs[i].name)

\* a summary over two specs of different names
C8_Witness ==
    /\ pc = "done"
    /\ Len(specs) = 2
    /\ specs[1].name # specs[2].name

\* C9: a failed assertion ends only its own test: the summary counts one result
\* per input spec, passed + failed = total and failed is the number of results
\* whose success is false.
C9_FailureDoesNotStopBatch ==
    pc = "done" =>
        LET sm == Unwrap(summary)
        IN /\ sm.total_tests = Len(specs)
           /\ Len(sm.results) = Len(specs)
           /\ sm.passed_tests + sm.failed_tests = sm.total_tests
           /\ sm.failed_tests = Cardinality({i \in 1..Len(sm.results) : ~sm.results[i].success})

\* a summary in which the first test failed and the second one ran and passed
C9_Witness ==
    /\ pc = "done"
    /\ Len(specs) = 2
    /\ ~Unwrap(summary).results[1].success
    /\ Unwrap(summary).results[2].success
    /\ Unwrap(summary).results[2].total_ticks >= 1
    /\ Unwrap(summary).failed_tests = 1

\* C10: when world creation fails for one spec, the remaining specs of the
\* batch are still run.
C10_WorldFailureSparesSiblings ==
    (pc = "panic" /\ idx < Len(specs)) => ENABLED BeginTest

(***************************************************************************)
(* Properties of writes with identifiers the full backend does not know.   *)
(***************************************************************************)
\* run_test is about to hand the next action of the bucket to execute_action
AtAction == pc = "exec" /\ tick <= timeline.max_tick /\ apos <= Len(Bucket)
NextAction == Bucket[apos][2].action_type

\* the id names no block (no item) of the registry, with or without "minecraft:"
IsUnknownBlockId(id) == \A n \in RegistryBlocks : id # <<n>> /\ id # <<MinecraftPrefix, n>>
IsUnknownItemId(id) == \A n \in RegistryItems : id # <<n>> /\ id # <<MinecraftPrefix, n>>

\* C11: a Place of a block whose id the full backend does not know changes the
\* block read at no position (the target included) nor the world tick, records
\* no outcome, and run_test goes on to the next action of the bucket.
C11_UnknownBlockSkipped ==
    [][(AtAction /\ NextAction.type = "Place" /\ IsUnknownBlockId(NextAction.block.id))
        => /\ \A q \in ProbePositions :
                FlintWorld_get_block(Unwrap(world'), q) = FlintWorld_get_block(Unwrap(world), q)
           /\ FlintWorld_current_tick(Unwrap(world')) = FlintWorld_current_tick(Unwrap(world))
           /\ result' = result
           /\ pc' = "exec"
           /\ apos' = apos + 1]_vars

\* stone was written at P1, a block of unknown id was placed there at the next
\* tick, and the run has gone on to its end with stone still at P1
C11_Witness ==
    /\ adapter = "steel"
    /\ pc = "returned"
    /\ specs[1].timeline = <<Entry(0, Place(P1, Stone)), Entry(1, Place(P1, Block(UnknownId, EmptyMap)))>>
    /\ TheResult.success
    /\ TheResult.total_ticks = 1
    /\ FlintWorld_current_tick(Unwrap(world)) = 2
    /\ FlintWorld_get_block(Unwrap(world), P1) = BlockData_new(StoneId)

\* C12: setting a slot to an item whose id the full backend does not know
\* leaves the slot holding what it held before the call.
C12_UnknownItemKeepsSlot ==
    [][(AtAction /\ IsSome(player) /\ NextAction.type = "SetSlot" /\ IsSome(NextAction.item)
            /\ IsUnknownItemId(Unwrap(NextAction.item)))
        => FlintPlayer_get_slot(Unwrap(player'), NextAction.slot)
              = FlintPlayer_get_slot(Unwrap(player), NextAction.slot)]_vars

(***************************************************************************)
(* Properties of block_matches.                                            *)
(***************************************************************************)
\* the last token of an id: its name without any prefix
NameOf(id) == id[Len(id)]

\* the ids are equal, or one is the other with a leading "minecraft:"
SameBlockId(a, e) == a = e \/ a = <<MinecraftPrefix>> \o e \/ e = <<MinecraftPrefix>> \o a

\* one id is a namespace prefix followed by the other, or they are equal
SameUpToNamespace(a, e) ==
    \/ a = e
    \/ Len(a) = 2 /\ e = <<a[2]>>
    \/ Len(e) = 2 /\ a = <<e[2]>>

\* C13 as stated: whatever the namespace ns, 'ns:n' matches 'n', 'n' matches
\* 'ns:n' and 'ns:n' matches 'ns:n' (no property being expected), and blocks
\* whose un-prefixed names differ never match.
C13_AnyNamespacePrefix ==
    IsSome(ret) =>
        /\ (args.expected.properties = EmptyMap
                /\ SameUpToNamespace(args.actual.id, args.expected.id) => Unwrap(ret))
        /\ (NameOf(args.actual.id) # NameOf(args.expected.id) => ~Unwrap(ret))

\* C13 (amended): the prefix removed on both sides is "minecraft:" alone:
\* 'minecraft:n' matches 'n', 'n' matches 'minecraft:n' and equal ids match (no
\* property being expected); ids that are neither equal nor differ by a leading
\* "minecraft:" never match, so 'ns:n' of another namespace does not match 'n',
\* and blocks whose un-prefixed names differ never match.
C13_MinecraftPrefixOnly ==
    IsSome(ret) =>
        /\ (args.expected.properties = EmptyMap
                /\ SameBlockId(args.actual.id, args.expected.id) => Unwrap(ret))
        /\ (~SameBlockId(args.actual.id, args.expected.id) => ~Unwrap(ret))
        /\ (NameOf(args.actual.id) # NameOf(args.expected.id) => ~Unwrap(ret))

\* 'minecraft:stone' was matched with an expected 'stone'
C13_Witness ==
    /\ ret = Some(TRUE)
    /\ args.actual.id = <<MinecraftPrefix, "stone">>
    /\ args.expected.id = <<"stone">>
    /\ args.actual.properties # EmptyMap
    /\ args.expected.properties = EmptyMap

\* the string an expected String, Bool or Number value stands for
NormalisedString(v) ==
    CASE v = JString("true") -> "true"
      [] v = JBool(TRUE) -> "true"
      [] v = JBool(FALSE) -> "false"
      [] v = JNumber(1) -> "1"

ComparedKeys(expected) ==
    {k \in DOMAIN expected.properties :
        k # "properties" /\ expected.properties[k].t \in {"String", "Bool", "Number"}}

Restrict(m, keys) == [k \in (DOMAIN m) \cap keys |-> m[k]]

\* C14: when the ids match, block_matches is true iff every expected property
\* whose name is not "properties" and whose value is a string, boolean or
\* number is present in the actual block with the equal normalised string; the
\* result is the same without the expected entries that are null, arrays or
\* named "properties", and the same without the actual properties that the
\* expectation does not name.
C14_ExpectedSubsetOfActual ==
    (IsSome(ret) /\ SameBlockId(args.actual.id, args.expected.id)) =>
        LET a == args.actual
            e == args.expected
            keys == ComparedKeys(e)
        IN /\ Unwrap(ret) <=>
                 \A k \in keys : /\ k \in DOMAIN a.properties
                                 /\ a.properties[k] = NormalisedString(e.properties[k])
           /\ block_matches(a, Block(e.id, Restrict(e.properties, keys))) = Unwrap(ret)
           /\ block_matches(BlockData_with_properties(a.id, Restrict(a.properties, keys)), e)
                 = Unwrap(ret)

\* a match with a boolean expectation met by the string "true", an expected
\* key "properties" that the actual block lacks, and ids that differ by the prefix
C14_Witness ==
    /\ ret = Some(TRUE)
    /\ args.actual.id = <<MinecraftPrefix, "stone">>
    /\ args.expected.id = <<"stone">>
    /\ args.actual.properties = [k \in {"powered"} |-> "true"]
    /\ args.expected.properties = [k \in {"powered", "properties"} |->
                                      IF k = "powered" THEN JBool(TRUE) ELSE JNumber(1)]

(***************************************************************************)
(* Properties of execute_action on the in-memory backend.                  *)
(***************************************************************************)
TheCall == Unwrap(ret)
ActProbes == Corners \cup {P1, <<0, 64, 1>>, <<0, 65, 0>>, <<1, 64, 0>>, <<0, 63, 0>>}

\* what get_block returns for a written block: the id and the properties as strings
ReadBack(block) ==
    BlockData_with_properties(block.id,
        [k \in DOMAIN block.properties |-> NormalisedString(block.properties[k])])

\* C15: an Assert action passes iff every one of its checks matches the block
\* read at the check's position; a failure is that of the first mismatching
\* check in list order (its position, expected id, the block read there, the
\* tick); and the Assert changes neither the world (blocks and tick) nor the
\* player, and makes no write call.
C15_AssertFirstMismatch ==
    (IsSome(ret) /\ args.action.type = "Assert") =>
        LET checks == args.action.checks
            Matches(i) == block_matches(MockWorld_get_block(args.world, checks[i].pos), checks[i].is)
            out == TheCall.outcome
        IN /\ out.kind \in {"AssertPassed", "AssertFailed"}
           /\ out.kind = "AssertPassed" <=> \A i \in 1..Len(checks) : Matches(i)
           /\ out.kind = "AssertFailed" =>
                 \E i \in 1..Len(checks) :
                    /\ ~Matches(i)
                    /\ \A j \in 1..(i - 1) : Matches(j)
                    /\ out.fail.position = checks[i].pos
                    /\ out.fail.expected.id = checks[i].is.id
                    /\ out.fail.actual = MockWorld_get_block(args.world, checks[i].pos)
                    /\ out.fail.tick = args.tick
           /\ TheCall.world = args.world
           /\ TheCall.player = args.player
           /\ TheCall.calls = <<>>

\* an Assert whose two checks both mismatch, at different positions of a world
\* that holds blocks, with a player present
C15_Witness ==
    /\ IsSome(ret)
    /\ args.action = AssertChecks(<<Check(<<0, 64, 1>>, Stone), Check(P1, LeverOn)>>)
    /\ MockWorld_get_block(args.world, P1) = BlockData_new(StoneId)
    /\ MockWorld_get_block(args.world, <<0, 64, 1>>) = ReadBack(LeverOn)
    /\ IsSome(args.player)
    /\ TheCall.outcome.kind = "AssertFailed"
    /\ TheCall.outcome.fail.position = <<0, 64, 1>>

\* q lies between a and b on every axis
InBox(q, a, b) ==
    \A i \in 1..3 : (a[i] <= q[i] /\ q[i] <= b[i]) \/ (b[i] <= q[i] /\ q[i] <= a[i])

\* the corner pairs got from (a, b) by exchanging the coordinates of some axes
CornerSwaps(a, b) ==
    {<<[i \in 1..3 |-> IF i \in S THEN b[i] ELSE a[i]],
       [i \in 1..3 |-> IF i \in S THEN a[i] ELSE b[i]]>> : S \in SUBSET (1..3)}

\* C18: Fill((a, b), block) makes set_block calls only, one for each integer
\* position of the inclusive box spanned by a and b and none for a position
\* outside it; afterwards every position of the box reads the block and every
\* other position reads what it read before; and Fill with the corners
\* exchanged on any set of axes yields the identical world.
C18_FillWritesTheBox ==
    (IsSome(ret) /\ args.action.type = "Fill") =>
        LET a == args.action.region[1]
            b == args.action.region[2]
            calls == TheCall.calls
            box == {q \in ActProbes : InBox(q, a, b)}
        IN /\ \A i \in 1..Len(calls) : calls[i].op = "set_block" /\ InBox(calls[i].pos, a, b)
           /\ \A q \in box : Cardinality({i \in 1..Len(calls) : calls[i].pos = q}) = 1
           /\ Len(calls) = Cardinality(box)
           /\ \A q \in box : MockWorld_get_block(TheCall.world, q) = ReadBack(args.action.with)
           /\ \A q \in ActProbes \ box :
                 MockWorld_get_block(TheCall.world, q) = MockWorld_get_block(args.world, q)
           /\ \A c \in CornerSwaps(a, b) :
                 execute_action(args.world, args.player, Fill(c, args.action.with), args.tick,
                                "none").world
                    = TheCall.world
           /\ TheCall.outcome = OutcomeAction

\* a Fill whose corners are inverted on two axes, over a world that held
\* another block inside the box and a block outside it
C18_Witness ==
    /\ IsSome(ret)
    /\ args.action = Fill(<<<<0, 65, 0>>, <<-1, 64, 1>>>>, Dirt)
    /\ MockWorld_get_block(args.world, P1) = BlockData_new(StoneId)
    /\ Len(TheCall.calls) = 8
    /\ MockWorld_get_block(TheCall.world, P1) = ReadBack(Dirt)
    /\ MockWorld_get_block(TheCall.world, <<-1, 65, 1>>) = ReadBack(Dirt)

\* C19: on either backend Remove{pos} returns what Place{pos, minecraft:air
\* without properties} returns on the same world (world, player, outcome and
\* calls); afterwards pos reads air, an Assert expecting "minecraft:air" or
\* "air" at pos passes, and every other position reads what it read before.
C19_RemoveIsPlaceAir ==
    (IsSome(ret) /\ args.action.type = "Remove") =>
        LET pos == args.action.pos
            viaPlace == execute_action(args.world, args.player,
                                       Place(pos, Block(AirId, EmptyMap)), args.tick, "none")
        IN /\ TheCall = viaPlace
           /\ TheCall.calls = <<CallSetBlock(pos)>>
           /\ FlintWorld_get_block(TheCall.world, pos) = BlockData_new(AirId)
           /\ \A e \in {Air, BareAir} :
                 execute_action(TheCall.world, TheCall.player,
                                AssertChecks(<<Check(pos, e)>>), args.tick, "none").outcome
                    = OutcomeAssertPassed
           /\ \A q \in ActProbes \ {pos} :
                 FlintWorld_get_block(TheCall.world, q) = FlintWorld_get_block(args.world, q)

\* a Remove at a position of the in-memory world that held a block with a
\* property, next to a position that holds stone
C19_Witness ==
    /\ IsSome(ret)
    /\ args.action = Remove(P1)
    /\ ~IsSteelTestWorld(args.world)
    /\ FlintWorld_get_block(args.world, P1) = ReadBack(LeverOn)
    /\ FlintWorld_get_block(args.world, <<0, 64, 1>>) = BlockData_new(StoneId)
    /\ FlintWorld_get_block(TheCall.world, P1) = BlockData_new(AirId)
    /\ FlintWorld_get_block(TheCall.world, <<0, 64, 1>>) = BlockData_new(StoneId)

\* the world after one Place action per placement, in list order
RECURSIVE PlaceInTurn(_, _)
PlaceInTurn(w, blocks) ==
    IF blocks = <<>> THEN w
    ELSE PlaceInTurn(execute_action(w, None, Place(Head(blocks).pos, Head(blocks).block), 0,
                                    "none").world,
                     Tail(blocks))

\* C20: PlaceEach makes one set_block call per placement, in list order, and
\* leaves the world that the same sequence of Place actions leaves; a position
\* that the list names reads the block of its last occurrence, every other
\* position reads what it read before.
C20_PlaceEachLastWins ==
    (IsSome(ret) /\ args.action.type = "PlaceEach") =>
        LET blocks == args.action.blocks
        IN /\ TheCall.calls = [i \in 1..Len(blocks) |-> CallSetBlock(blocks[i].pos)]
           /\ TheCall.world = PlaceInTurn(args.world, blocks)
           /\ TheCall.outcome = OutcomeAction
           /\ TheCall.player = args.player
           /\ \A q \in ActProbes :
                 LET occ == {i \in 1..Len(blocks) : blocks[i].pos = q}
                 IN MockWorld_get_block(TheCall.world, q) =
                       IF occ = {} THEN MockWorld_get_block(args.world, q)
                       ELSE ReadBack(blocks[SetMax(occ)].block)

\* a PlaceEach that names P1 twice, with stone and then with the lever, over a
\* world that held stone at P1
C20_Witness ==
    /\ IsSome(ret)
    /\ args.action = PlaceEach(<<Placement(P1, Stone), Placement(P1, LeverOn)>>)
    /\ MockWorld_get_block(args.world, P1) = BlockData_new(StoneId)
    /\ MockWorld_get_block(TheCall.world, P1) = ReadBack(LeverOn)

(***************************************************************************)
(* Properties of run_test on specs that write and assert blocks.           *)
(***************************************************************************)
\* the timeline is Place{p, b} followed by Assert{(p, b)} at the same tick
IsPlaceThenAssert(tl) ==
    /\ Len(tl) = 2
    /\ tl[1].action_type.type = "Place"
    /\ tl[2].action_type =
          AssertChecks(<<Check(tl[1].action_type.pos, tl[1].action_type.block)>>)
    /\ tl[1].at = tl[2].at

\* C16: on the in-memory backend the result of a spec made of Place{p, b}
\* followed by Assert{(p, b)} at the same tick t has success = true, exactly
\* one outcome, Passed(t), and total_ticks = t, the largest tick of the spec.
C16_PlaceThenAssertPasses ==
    (pc = "returned" /\ IsPlaceThenAssert(CurrentSpec.timeline)) =>
        /\ TheResult.success
        /\ TheResult.assertions = <<AssertionSuccess(CurrentSpec.timeline[1].at)>>
        /\ TheResult.total_ticks = CurrentSpec.timeline[1].at
        /\ TheResult.total_ticks = timeline.max_tick

\* the result of placing and asserting, at tick 1, a block of another
\* namespace with a boolean and a number property
C16_Witness ==
    /\ pc = "returned"
    /\ CurrentSpec.timeline =
          PlaceThenAssert(P1, Block(ModStoneId, [k \in {"powered", "properties"} |->
                                        IF k = "powered" THEN JBool(FALSE) ELSE JNumber(1)]), 1)
    /\ TheResult.success
    /\ TheResult.total_ticks = 1

\* the position is the target of no Place of the timeline
NeverWritten(tl, q) ==
    \A i \in 1..Len(tl) : tl[i].action_type.type = "Place" => tl[i].action_type.pos # q

\* C17: on the in-memory backend the result of a spec whose only Assert
\* expects a block other than air at a position the spec never writes has
\* success = false and exactly one outcome, a Failure at the tick and the
\* position of the Assert, whose expected value is the asserted block (id and
\* properties as strings) and whose actual value is minecraft:air without
\* properties.
C17_AssertUnwrittenFails ==
    pc = "returned" =>
        LET tl == CurrentSpec.timeline
            last == tl[Len(tl)]
            check == last.action_type.checks[1]
        IN (/\ last.action_type.type = "Assert"
            /\ NameOf(check.is.id) # "air"
            /\ NeverWritten(tl, check.pos))
           => /\ ~TheResult.success
              /\ Len(TheResult.assertions) = 1
              /\ TheResult.assertions[1].kind = "Failure"
              /\ TheResult.assertions[1].fail.tick = last.at
              /\ TheResult.assertions[1].fail.position = check.pos
              /\ TheResult.assertions[1].fail.expected = ReadBack(check.is)
              /\ TheResult.assertions[1].fail.actual = BlockData_new(AirId)
              /\ TheResult.total_ticks = last.at

\* stone was written at another position at tick 0 and a block with a property
\* was asserted at tick 1 at a position never written
C17_Witness ==
    /\ pc = "returned"
    /\ CurrentSpec.timeline =
          <<Entry(0, Place(<<1, 64, 0>>, Stone)),
            Entry(1, AssertChecks(<<Check(P1, Block(<<"stone">>, [k \in {"powered"} |-> JNumber(1)]))>>))>>
    /\ ~TheResult.success
    /\ MockWorld_current_tick(Unwrap(world)) = 1

(***************************************************************************)
(* Properties of execute_action with the player actions.                   *)
(***************************************************************************)
IsUseCall(e) == e.op = "use_item_on"
UseCalls == SelectSeq(TheCall.calls, IsUseCall)

\* the player the action works on: the one passed in, or the one it creates
PlayerBefore ==
    IF IsSome(args.player) THEN Unwrap(args.player) ELSE FlintWorld_create_player(args.world)

\* what get_slot reports for an item of count 1 put into a slot: the item as
\* given on the in-memory backend, the registered item under its full id on
\* the full backend
ReportedItem(p, id) ==
    IF IsSteelTestPlayer(p)
    THEN Some(Item_with_count(<<MinecraftPrefix>> \o ItemIdPath(id), 1))
    ELSE Some(Item_new(id))

\* the claim's case: a call of execute_action with a UseItemOn that names an item
UsesNamedItem == IsSome(ret) /\ args.action.type = "UseItemOn" /\ IsSome(args.action.item)

\* the dispatch makes exactly one use_item_on call, as its last call, with
\* hotbar slot 1 selected and every slot but Hotbar1 reading as before
OneUseCallOtherSlotsKept ==
    LET calls == TheCall.calls
    IN /\ Len(UseCalls) = 1
       /\ calls[Len(calls)] = UseCalls[1]
       /\ UseCalls[1].pos = args.action.pos
       /\ UseCalls[1].selected = 1
       /\ \A sl \in PlayerSlots \ {"Hotbar1"} :
             UseCalls[1].slots[sl] = FlintPlayer_get_slot(PlayerBefore, sl)

\* C21: a UseItemOn with an explicit item id, whatever the id, makes exactly
\* one use_item_on call, as its last call; when that call is made the
\* selected hotbar slot is 1 and Hotbar1 holds that item with count 1,
\* whatever Hotbar1 and the selection were before; and every other slot
\* reads at the call as it did before the action.
C21_UseItemOnWithItemSetsHand ==
    UsesNamedItem =>
        /\ OneUseCallOtherSlotsKept
        /\ UseCalls[1].slots["Hotbar1"] = ReportedItem(PlayerBefore, Unwrap(args.action.item))

\* the part of C21 that holds: the one call, the selection and the other
\* slots on every input, and the item in Hotbar1 unless the player is of the
\* full backend and the item registry does not hold the id; then Hotbar1 is
\* empty at the call
UseItemOnKnownItemSetsHand ==
    UsesNamedItem =>
        /\ OneUseCallOtherSlotsKept
        /\ UseCalls[1].slots["Hotbar1"] =
              IF IsSteelTestPlayer(PlayerBefore) /\ IsUnknownItemId(Unwrap(args.action.item))
              THEN None
              ELSE ReportedItem(PlayerBefore, Unwrap(args.action.item))

(***************************************************************************)
(* Properties of run_test on specs with a player setup and player actions. *)
(***************************************************************************)
TraceUseCalls == SelectSeq(trace, IsUseCall)
ThePlayer == Unwrap(player)

\* the timeline is Place, SetSlot{Hotbar1, item, count}, SelectHotbar{1},
\* UseItemOn without an item, at ticks that do not decrease
IsSetSelectUse(tl) ==
    /\ Len(tl) = 4
    /\ tl[2].action_type.type = "SetSlot"
    /\ tl[2].action_type.slot = "Hotbar1"
    /\ IsSome(tl[2].action_type.item)
    /\ tl[3].action_type = SelectHotbar(1)
    /\ tl[4].action_type.type = "UseItemOn"
    /\ ~IsSome(tl[4].action_type.item)
    /\ tl[2].at <= tl[3].at
    /\ tl[3].at <= tl[4].at

\* C22: on the in-memory backend, when a run of SetSlot{Hotbar1, item, count},
\* SelectHotbar{1}, UseItemOn{pos, face} (no item) has returned, the player
\* was created exactly once, use_item_on was called once, the selected hotbar
\* slot is 1 and Hotbar1 holds the item with its count; every slot and the
\* selection are as they were when use_item_on was called, and the world
\* holds exactly the block that the spec placed.
C22_UseWithoutItemKeepsHand ==
    (pc = "returned" /\ adapter = "mock" /\ IsSetSelectUse(CurrentSpec.timeline)) =>
        LET set == CurrentSpec.timeline[2].action_type
        IN /\ CreatePlayerCount = 1
           /\ Len(TraceUseCalls) = 1
           /\ MockPlayer_selected_hotbar(ThePlayer) = 1
           /\ MockPlayer_get_slot(ThePlayer, "Hotbar1")
                 = Some(Item_with_count(Unwrap(set.item), set.count))
           /\ TraceUseCalls[1].selected = MockPlayer_selected_hotbar(ThePlayer)
           /\ \A sl \in PlayerSlots : TraceUseCalls[1].slots[sl] = MockPlayer_get_slot(ThePlayer, sl)
           /\ \A q \in ProbePositions :
                 MockWorld_get_block(Unwrap(world), q)
                    = IF q = P1 THEN BlockData_new(StoneId) ELSE BlockData_new(AirId)
           /\ DOMAIN Unwrap(world).blocks = {P1}

\* the scenario with a sword of count 3, after a setup that selected slot 4
\* and filled two other slots, the three actions at ticks 0, 0 and 1
C22_Witness ==
    /\ pc = "returned"
    /\ adapter = "mock"
    /\ HasPlayerSetup(CurrentSpec)
    /\ Unwrap(Unwrap(CurrentSpec.setup).player).selected_hotbar = 4
    /\ CurrentSpec.timeline = HandTimeline("Hotbar1", <<"sword">>, 3, 1, None, 0, 0, 1)
    /\ MockPlayer_get_slot(ThePlayer, "Hotbar1") = Some(Item_with_count(<<"sword">>, 3))
    /\ MockPlayer_get_slot(ThePlayer, "OffHand") = Some(Item_with_count(StoneId, 1))
    /\ TheResult.success

NoScheduleCallYet == SelectSeq(trace, IsScheduleCall) = <<>>

\* C24: when the spec has a player setup, then in every state of the run after
\* the setup step the player exists and its creation is the first call of the
\* run, ahead of every action and every do_tick; and before the first action
\* or do_tick the world is at tick 0, every configured slot holds the
\* configured item and count, every other slot is empty, and the selection is
\* the configured one if it is in 1..9 and the default 1 otherwise.
C24_SetupBeforeTickZero ==
    (InTest /\ pc # "setup" /\ HasPlayerSetup(CurrentSpec)) =>
        LET cfg == Unwrap(Unwrap(CurrentSpec.setup).player)
            n == cfg.selected_hotbar
        IN /\ IsSome(player)
           /\ trace # <<>>
           /\ trace[1] = CallCreatePlayer
           /\ CreatePlayerCount = 1
           /\ NoScheduleCallYet =>
                 /\ pc = "exec" /\ tick = 0 /\ apos = 1
                 /\ FlintWorld_current_tick(Unwrap(world)) = 0
                 /\ \A sl \in PlayerSlots :
                       FlintPlayer_get_slot(ThePlayer, sl)
                          = IF sl \in DOMAIN cfg.inventory
                            THEN Some(Item_with_count(cfg.inventory[sl].item, cfg.inventory[sl].count))
                            ELSE None
                 /\ FlintPlayer_selected_hotbar(ThePlayer) = IF n >= 1 /\ n <= 9 THEN n ELSE 1

\* a run on the full backend whose setup fills two slots and asks for slot 10,
\* stopped before its first action
C24_Witness ==
    /\ pc = "exec"
    /\ adapter = "steel"
    /\ NoScheduleCallYet
    /\ HasPlayerSetup(CurrentSpec)
    /\ Unwrap(Unwrap(CurrentSpec.setup).player).selected_hotbar = 10
    /\ FlintPlayer_get_slot(ThePlayer, "Hotbar2") = Some(Item_with_count(Honeycomb, 2))
    /\ FlintPlayer_get_slot(ThePlayer, "OffHand") = Some(Item_with_count(StoneId, 1))
    /\ FlintPlayer_selected_hotbar(ThePlayer) = 1

(***************************************************************************)
(* Properties of the FlintPlayer methods.                                  *)
(***************************************************************************)
InRange(n) == n >= 1 /\ n <= 9

\* the last slot number in 1..9 that the calls of h passed to select_hotbar
\* of player i; 1 when there is none
RECURSIVE LastValidSelect(_, _)
LastValidSelect(h, i) ==
    IF h = <<>> THEN 1
    ELSE LET e == h[Len(h)]
         IN IF e.on = i /\ e.op = "select_hotbar" /\ InRange(e.slot) THEN e.slot
            ELSE LastValidSelect(SubSeq(h, 1, Len(h) - 1), i)

\* the item that the last set_slot of h on slot sl of player i passed; None
\* when there is no such call
RECURSIVE LastSet(_, _, _)
LastSet(h, i, sl) ==
    IF h = <<>> THEN None
    ELSE LET e == h[Len(h)]
         IN IF e.on = i /\ e.op = "set_slot" /\ e.slot = sl THEN e.item
            ELSE LastSet(SubSeq(h, 1, Len(h) - 1), i, sl)

\* C23: on both backends, after any sequence of calls the selected hotbar slot
\* of a player is the last number in 1..9 passed to its select_hotbar, or 1 if
\* there was none: a call with a number in 1..9 selects it, a call with any
\* other u8 changes nothing, and the selection is always in 1..9.
C23_SelectHotbarInRange ==
    \A i \in 1..Len(recv) :
        /\ FlintPlayer_selected_hotbar(recv[i]) = LastValidSelect(hist, i)
        /\ InRange(FlintPlayer_selected_hotbar(recv[i]))

\* a player of the full backend that selected 9, then was asked for 0 and 255
C23_Witness ==
    /\ IsSteelTestPlayer(recv[1])
    /\ hist = <<SelectHotbarCall(1, 9), SelectHotbarCall(1, 0), SelectHotbarCall(1, U8Max)>>
    /\ FlintPlayer_selected_hotbar(recv[1]) = 9
    /\ FlintPlayer_selected_hotbar(recv[2]) = 1

\* C27: for two MockPlayers, after any sequence of calls get_slot(s) of a
\* player is what the last set_slot on s of that same player passed (None if
\* there was none or it passed None), and its selection is the one that its
\* own select_hotbar calls made: a set_slot changes no other slot and no
\* selection, a select_hotbar changes no slot, and no call on one player
\* shows on the other.
C27_SlotsPerPlayer ==
    \A i \in 1..Len(recv) :
        ~IsSteelTestPlayer(recv[i]) =>
            /\ \A sl \in PlayerSlots : MockPlayer_get_slot(recv[i], sl) = LastSet(hist, i, sl)
            /\ MockPlayer_selected_hotbar(recv[i]) = LastValidSelect(hist, i)

\* the first MockPlayer had stone put into Hotbar1 and taken out again, the
\* second had honeycomb put into Hotbar1
C27_Witness ==
    /\ ~IsSteelTestPlayer(recv[1])
    /\ hist = <<SetSlotCall(1, "Hotbar1", Some(Item_with_count(StoneId, 1))),
                SetSlotCall(2, "Hotbar1", Some(Item_with_count(Honeycomb, 2))),
                SetSlotCall(1, "Hotbar1", None)>>
    /\ MockPlayer_get_slot(recv[1], "Hotbar1") = None
    /\ MockPlayer_get_slot(recv[2], "Hotbar1") = Some(Item_with_count(Honeycomb, 2))

(***************************************************************************)
(* Properties of the FlintWorld methods.                                   *)
(***************************************************************************)
TheWorld == recv[1]
IsDoTick(e) == e.op = "do_tick"
DoTickCount == Len(SelectSeq(hist, IsDoTick))

\* C25: on both backends current_tick() is the number of do_tick calls made
\* so far: 0 for a new world, one more after each do_tick, and the same
\* after a get_block, a set_block or a create_player.
C25_TickCountsDoTicks ==
    [][/\ hist # <<>> => FlintWorld_current_tick(TheWorld) = DoTickCount
       /\ hist = <<>> => FlintWorld_current_tick(TheWorld) = 0
       /\ FlintWorld_current_tick(TheWorld') =
             FlintWorld_current_tick(TheWorld)
                + (IF hist'[Len(hist')].op = "do_tick" THEN 1 ELSE 0)]_vars

\* a world of the full backend after do_tick, set_block, do_tick
C25_Witness ==
    /\ IsSteelTestWorld(TheWorld)
    /\ hist = <<DoTickCall, SetBlockCall(P1, Stone), DoTickCall>>
    /\ FlintWorld_current_tick(TheWorld) = 2

\* the string stored for a property value that a write passed
WrittenString(v) ==
    CASE v = JBool(TRUE) -> "true"
      [] v = JNumber(1) -> "1"
      [] v = JNull -> ""

\* what the last set_block of h at position q wrote, air when there is none
RECURSIVE LastWrite(_, _)
LastWrite(h, q) ==
    IF h = <<>> THEN BlockData_new(AirId)
    ELSE LET e == h[Len(h)]
         IN IF e.op = "set_block" /\ e.pos = q
            THEN BlockData_with_properties(e.block.id,
                    [k \in DOMAIN e.block.properties |-> WrittenString(e.block.properties[k])])
            ELSE LastWrite(SubSeq(h, 1, Len(h) - 1), q)

\* C26: for a MockWorld, after any sequence of calls get_block(p) is air
\* without properties if no set_block wrote p, and otherwise the id and the
\* properties as strings of the last set_block at p; so a write at p changes
\* what is read at no other position and a get_block changes nothing, and
\* the value a get_block call returned is that block.
C26_ReadsLastWrite ==
    ~IsSteelTestWorld(TheWorld) =>
        /\ \A q \in ProbePositions \cup {<<0, 65, 0>>} :
              MockWorld_get_block(TheWorld, q) = LastWrite(hist, q)
        /\ (hist # <<>> /\ hist[Len(hist)].op = "get_block")
              => ret = Some(LastWrite(hist, hist[Len(hist)].pos))

\* stone was overwritten by a repeater at one position, the other position
\* was written once, and the overwritten position was read
C26_Witness ==
    /\ ~IsSteelTestWorld(TheWorld)
    /\ hist = <<SetBlockCall(P1, Stone), SetBlockCall(P1, Repeater), GetBlockCall(P1)>>
    /\ ret = Some(BlockData_with_properties(<<"repeater">>,
                     [k \in {"delay", "locked"} |-> IF k = "delay" THEN "1" ELSE ""]))
    /\ MockWorld_get_block(TheWorld, P2) = BlockData_new(AirId)

(***************************************************************************)
(* Properties of glob_match and of TestFilter.                             *)
(***************************************************************************)
\* the offsets of the text at which the first i characters of the pattern can
\* end when they cover the text from its start: a `*` covers zero or more
\* characters, a `?` one character, any other character one equal character
RECURSIVE GlobCuts(_, _, _)
GlobCuts(pattern, text, i) ==
    IF i = 0 THEN {0}
    ELSE LET before == GlobCuts(pattern, text, i - 1)
             c == pattern[i]
         IN IF c = Star THEN {j \in 0..Len(text) : \E k \in before : k <= j}
            ELSE IF c = QuestionMark THEN {k + 1 : k \in {m \in before : m < Len(text)}}
            ELSE {k + 1 : k \in {m \in before : m < Len(text) /\ text[m + 1] = c}}

\* the whole text can be split along the whole pattern
GlobSplits(pattern, text) == Len(text) \in GlobCuts(pattern, text, Len(pattern))

\* C30: glob_match(pattern, text) is true iff the whole text can be split so
\* that each `*` of the pattern covers zero or more characters, each `?`
\* exactly one character and every other pattern character one equal
\* character of the text.
C30_GlobMatchesSplits ==
    IsSome(ret) => (Unwrap(ret) <=> GlobSplits(args.pattern, args.text))

\* `*a*b*` has matched `xaxbx`
C30_Witness ==
    /\ args.pattern = <<Star, "a", Star, "b", Star>>
    /\ args.text = <<"x", "a", "x", "b", "x">>
    /\ ret = Some(TRUE)

Range(q) == {q[i] : i \in 1..Len(q)}
Unconstrained(f) == f.tags = <<>> /\ f.name_patterns = <<>> /\ f.exact_name = None
Returned(fn) == IsSome(ret) /\ Unwrap(ret).fn = fn

\* C28: matches(spec) of a filter without tags, name patterns and exact name
\* is true for every spec, and is_empty() of a filter is true exactly when
\* the filter has none of the three.
C28_EmptyFilterMatchesAll ==
    /\ (Returned("matches") /\ Unconstrained(args.filter)) => Unwrap(ret).value
    /\ Returned("is_empty") => (Unwrap(ret).value <=> Unconstrained(args.filter))

\* TestFilter::all() has matched a spec that carries two tags
C28_Witness ==
    /\ Returned("matches")
    /\ args.filter = TestFilter_all
    /\ args.spec = [name |-> <<"a", "b">>, tags |-> <<"redstone", "slow">>]
    /\ Unwrap(ret).value

\* C29: matches(spec) is the conjunction of three conditions: no exact name
\* is set or the spec's name is that name, character by character; no name
\* pattern is set or the name can be split along at least one of the
\* patterns; no tag is set or the spec's tags and the filter's tags have a
\* tag in common.
C29_MatchesIsConjunction ==
    Returned("matches") =>
        LET f == args.filter
            spec == args.spec
        IN Unwrap(ret).value <=>
              /\ f.exact_name = None \/ spec.name = Unwrap(f.exact_name)
              /\ f.name_patterns = <<>> \/ \E pt \in Range(f.name_patterns) : GlobSplits(pt, spec.name)
              /\ f.tags = <<>> \/ Range(f.tags) \cap Range(spec.tags) # {}

\* a tags-only filter with two tags has matched a spec that carries the
\* second of them only
C29_Witness ==
    /\ Returned("matches")
    /\ args.filter = TestFilter(<<"redstone", "slow">>, <<>>, None)
    /\ args.spec.tags = <<"slow">>
    /\ Unwrap(ret).value

\* strings without `*` and `?`
LiteralSuffixes == SeqsUpTo(TextChars, MaxSuffix)

\* C31: glob_match("*", s) is true for every s; glob_match("", s) is true for
\* the empty s and false for every other s; and glob_match(p, s) is the value
\* of glob_match(p + w, s + w) for every string w without `*` and `?`.
C31_GlobStarEmptyAndSuffix ==
    IsSome(ret) =>
        /\ args.pattern = <<Star>> => Unwrap(ret)
        /\ args.pattern = <<>> => (Unwrap(ret) <=> args.text = <<>>)
        /\ \A w \in LiteralSuffixes :
              glob_match(args.pattern \o w, args.text \o w) = Unwrap(ret)

\* `a*` has matched `ax`, and `a*b` matches `axb`
C31_Witness ==
    /\ args.pattern = <<"a", Star>>
    /\ args.text = <<"a", "x">>
    /\ ret = Some(TRUE)
    /\ glob_match(<<"a", Star, "b">>, <<"a", "x", "b">>)

\* the position in the spec's timeline of the i-th entry scheduled at tick t
CountAt(tl, t, k) == Cardinality({j \in 1..k : tl[j].at = t})
EntryPos(tl, t, i) == CHOOSE k \in 1..Len(tl) : tl[k].at = t /\ CountAt(tl, t, k) = i

\* entry j runs before entry k: at an earlier tick, or earlier in the list at the same tick
OrderedBefore(tl, j, k) == tl[j].at < tl[k].at \/ (tl[j].at = tl[k].at /\ j < k)

IsWrite(a) == a.type \in {"Place", "Remove"}
WrittenBlock(a) == IF a.type = "Place" THEN a.block ELSE Air

\* the block that entry k finds at the position: the one written by the last
\* write ordered before it, air when there is none
SeenBlock(tl, k) ==
    LET ws == {j \in 1..Len(tl) : IsWrite(tl[j].action_type) /\ OrderedBefore(tl, j, k)}
    IN IF ws = {} THEN Air
       ELSE LET last == CHOOSE j \in ws : \A o \in ws : o = j \/ OrderedBefore(tl, o, j)
            IN WrittenBlock(tl[last].action_type)

IsAssertCall(e) == IsActionCall(e) /\ ActionOf(e).type = "Assert"
AssertCalls == SelectSeq(trace, IsAssertCall)

\* C32: within one tick the actions run in the order of the spec's timeline
\* entries (and, when specs are merged, those of the earlier spec first), so
\* an Assert passes exactly when its expected block is the one written by the
\* last Place or Remove entry ordered before it, by tick and then by list
\* position, air when there is none: Place-then-Assert at one tick sees the
\* placed block, Assert-then-Place sees the block of before.
C32_SameTickOrder ==
    InTest =>
        LET tl == CurrentSpec.timeline
            twice == TimelineAggregate_from_tests(<<<<CurrentSpec, ZeroOffset>>,
                                                    <<CurrentSpec, ZeroOffset>>>>)
        IN /\ \A n \in 1..Len(ActionCalls) :
                 ActionOf(ActionCalls[n])
                    = tl[EntryPos(tl, ActionCalls[n].tick, ActionCalls[n].index)].action_type
           /\ \A t \in DOMAIN timeline.timeline :
                 twice.timeline[t]
                    = [j \in 1..Len(timeline.timeline[t]) |-> <<0, timeline.timeline[t][j][2], 0>>]
                        \o [j \in 1..Len(timeline.timeline[t]) |-> <<1, timeline.timeline[t][j][2], 0>>]
           /\ Len(AssertCalls) = Len(TheResult.assertions)
           /\ \A n \in 1..Len(AssertCalls) :
                 LET k == EntryPos(tl, AssertCalls[n].tick, AssertCalls[n].index)
                 IN TheResult.assertions[n].kind = "Success"
                        <=> SeenBlock(tl, k) = tl[k].action_type.checks[1].is

\* Assert{air} then Place{stone} at tick 0: the assertion has seen the block of before
C32_Witness ==
    /\ pc = "returned"
    /\ specs = <<TestSpec("order", None,
                          <<Entry(0, AssertChecks(<<Check(P1, Air)>>)), Entry(0, Place(P1, Stone))>>)>>
    /\ TheResult.success
    /\ Len(TheResult.assertions) = 1
    /\ FlintWorld_get_block(Unwrap(world), P1) = Stone

TheTests == args.tests
TheAggregate == Unwrap(ret)

EntryTicks(tests) ==
    UNION {{tests[i][1].timeline[k].at : k \in 1..Len(tests[i][1].timeline)} : i \in 1..Len(tests)}

\* the places (tick, index) of the buckets, and the (spec, entry) pairs of the input
BucketPlaces(agg) ==
    UNION {{<<t, j>> : j \in 1..Len(agg.timeline[t])} : t \in DOMAIN agg.timeline}
InputPlaces(tests) ==
    UNION {{<<i, k>> : k \in 1..Len(tests[i][1].timeline)} : i \in 1..Len(tests)}

\* what entry k of spec i is scheduled as
Scheduled(tests, i, k) ==
    <<i - 1, [tests[i][1].timeline[k] EXCEPT !.action_type = OffsetAction(@, tests[i][2])], 0>>

Occurrences(agg, x) == Cardinality({q \in BucketPlaces(agg) : agg.timeline[q[1]][q[2]] = x})
Sources(tests, x) == Cardinality({q \in InputPlaces(tests) : Scheduled(tests, q[1], q[2]) = x})

HasEntries(test) == test[1].timeline # <<>>

\* C33: max_tick is the largest tick of any entry of the input and 0 when
\* there is none; the buckets are keyed by exactly the ticks that carry an
\* entry, so a spec with an empty timeline adds no bucket and leaves max_tick
\* as it is; every entry of every spec is in the bucket of its own tick, as
\* often as the input holds it, and in no other.
C33_MaxTickAndBuckets ==
    IsSome(ret) =>
        LET agg == TheAggregate
            ticks == EntryTicks(TheTests)
            others == SelectSeq(TheTests, HasEntries)
        IN /\ ticks = {} => agg.max_tick = 0
           /\ ticks # {} => agg.max_tick \in ticks /\ \A t \in ticks : t <= agg.max_tick
           /\ DOMAIN agg.timeline = ticks
           /\ \A q \in BucketPlaces(agg) :
                 /\ agg.timeline[q[1]][q[2]][2].at = q[1]
                 /\ Sources(TheTests, agg.timeline[q[1]][q[2]]) >= 1
           /\ \A q \in InputPlaces(TheTests) :
                 LET x == Scheduled(TheTests, q[1], q[2])
                 IN Occurrences(agg, x) = Sources(TheTests, x)
           /\ TimelineAggregate_from_tests(TheTests \o <<<<EmptySpec, FarOffset>>>>) = agg
           /\ TimelineAggregate_from_tests(others).max_tick = agg.max_tick
           /\ DOMAIN TimelineAggregate_from_tests(others).timeline = DOMAIN agg.timeline

\* a spec with an empty timeline after one whose last tick comes first in its list
C33_Witness ==
    /\ IsSome(ret)
    /\ Len(TheTests) = 2
    /\ TheTests[1][1] = LateSpec
    /\ TheTests[2][1] = EmptySpec
    /\ TheAggregate.max_tick = MaxTickBound + 1
    /\ DOMAIN TheAggregate.timeline = {0, MaxTickBound + 1}
    /\ Len(TheAggregate.timeline[0]) = 2

\* the positions an action carries, in the order of its fields
Positions(a) ==
    CASE a.type = "Place" -> <<a.pos>>
      [] a.type = "PlaceEach" -> [i \in 1..Len(a.blocks) |-> a.blocks[i].pos]
      [] a.type = "Fill" -> <<a.region[1], a.region[2]>>
      [] a.type = "Remove" -> <<a.pos>>
      [] a.type = "Assert" -> [i \in 1..Len(a.checks) |-> a.checks[i].pos]
      [] a.type = "UseItemOn" -> <<a.pos>>
      [] OTHER -> <<>>

\* C34: aggregating one spec with offset (dx, dy, dz) gives every action of
\* the timeline its positions (Place, each PlaceEach placement, both Fill
\* corners, Remove, each Assert check, UseItemOn) moved by the offset,
\* coordinate by coordinate; with the zero offset the action is unchanged.
C34_OffsetMovesEveryPosition ==
    (IsSome(ret) /\ Len(TheTests) = 1) =>
        LET tl == TheTests[1][1].timeline
            off == TheTests[1][2]
        IN \A q \in BucketPlaces(TheAggregate) :
              LET orig == tl[EntryPos(tl, q[1], q[2])].action_type
                  got == TheAggregate.timeline[q[1]][q[2]][2].action_type
              IN /\ got.type = orig.type
                 /\ Len(Positions(got)) = Len(Positions(orig))
                 /\ \A n \in 1..Len(Positions(orig)) : \A c \in 1..3 :
                       Positions(got)[n][c] = Positions(orig)[n][c] + off[c]
                 /\ off = ZeroOffset => got = orig

\* a Fill scheduled with the offset (1, -2, 3): both corners have moved
C34_Witness ==
    /\ IsSome(ret)
    /\ Len(TheTests) = 1
    /\ TheTests[1][2] = FarOffset
    /\ TheTests[1][1].timeline = <<Entry(1, Fill(<<P1, <<1, 65, 1>>>>, Stone))>>
    /\ TheAggregate.timeline[1][1][2].action_type.region = <<<<1, 62, 3>>, <<2, 63, 4>>>>

\* the numbers of the calls a thread has returned from: those it has ended
\* and that did not end in a panic
ReturnedCalls(t) ==
    LET th == recv.threads[t]
        begun == Len(args[t]) - Len(th.todo)
        inCall == th.body # <<>> \/ th.running # "none" \/ th.get
    IN (1..(IF inCall THEN begun - 1 ELSE begun)) \ th.panicked

OnceOnlyCells == {"config", "registry", "behaviors"}

RunningThreads(c) == {t \in Threads : recv.threads[t].running = c}

\* C35: under every interleaving of init() and runtime() calls from several
\* threads, the closures of the server config, the registry and the
\* behaviours are each entered at most once, at most one runtime is ever
\* built and stored (a build that panics stores none and is tried again by
\* the next caller), no closure runs twice at a time, the behaviours are
\* initialised only after the registry is, every init() that has returned
\* leaves all four initialised, and every runtime() call that returns yields
\* the one runtime held by FLINT_RUNTIME, never failing on an empty cell.
C35_InitOnce ==
    /\ \A c \in OnceOnlyCells : recv.entered[c] <= 1
    /\ \A c \in OnceCells :
          /\ recv.runs[c] <= 1
          /\ recv.once[c] = "complete" <=> recv.runs[c] = 1
          /\ recv.once[c] = "running" <=> Cardinality(RunningThreads(c)) = 1
          /\ Cardinality(RunningThreads(c)) <= 1
    /\ recv.once["behaviors"] # "incomplete" => recv.once["registry"] = "complete"
    /\ IsSome(recv.FLINT_RUNTIME) <=> recv.once["runtime"] = "complete"
    /\ \A t \in Threads : \A n \in ReturnedCalls(t) :
          /\ recv.once["runtime"] = "complete"
          /\ args[t][n] = "init" => \A c \in OnceCells : recv.once[c] = "complete"
    /\ \A i \in 1..Len(hist) : hist[i].value = Some(1) /\ hist[i].value = recv.FLINT_RUNTIME

\* one thread has called init() twice while another called runtime() twice;
\* the first build of the runtime panicked in runtime(), the second one, run
\* by init(), is the runtime that every later call sees
C35_Witness ==
    /\ args[1] = <<"init", "init">>
    /\ args[2] = <<"runtime", "runtime">>
    /\ ReturnedCalls(1) = {1, 2}
    /\ ReturnedCalls(2) = {2}
    /\ recv.entered["runtime"] = 2
    /\ \A c \in OnceCells : recv.runs[c] = 1
    /\ hist = <<[thread |-> 2, value |-> Some(1)]>>
    /\ recv.once["config"] = "complete"

TheEvents == recv.conn.events
IsPacketSent(e) == e.event = "PacketSent"

\* the closed flag never returns from true to false
ClosedStaysSet == [][recv.conn.closed => recv'.conn.closed]_vars

\* the packets of one bundle are next to each other in the log, in order
BundleContiguous ==
    \A i \in 1..Len(TheEvents), j \in 1..Len(TheEvents) :
        (/\ IsPacketSent(TheEvents[i]) /\ IsPacketSent(TheEvents[j])
         /\ TheEvents[i].data[1] = TheEvents[j].data[1]
         /\ TheEvents[i].data[2] = TheEvents[j].data[2]
         /\ TheEvents[j].data[3] = TheEvents[i].data[3] + 1) => j = i + 1

\* a send call that begins once the flag is set pushes nothing
NoSendBegunAfterClose ==
    [][\A t \in Threads :
          (/\ recv.conn.closed
           /\ recv.threads[t].at = "idle"
           /\ recv.threads[t].todo # <<>>
           /\ Head(recv.threads[t].todo) # "disconnect_with_reason")
              => recv'.threads[t].at # "lock"]_vars

\* C40 as stated: under every interleaving of send_encoded and
\* send_encoded_bundle with close and disconnect_with_reason, no PacketSent
\* event is appended to the log once the connection is closed, in particular
\* none follows a Disconnected event, and the packets of one bundle are
\* contiguous and in order.
C40_NoPacketAfterClose ==
    /\ \A i \in 1..Len(TheEvents) : IsPacketSent(TheEvents[i]) => ~hist[i]
    /\ \A i \in 1..Len(TheEvents), j \in 1..Len(TheEvents) :
          (i < j /\ TheEvents[i].event = "Disconnected") => ~IsPacketSent(TheEvents[j])
    /\ BundleContiguous

\* the Passed/Failed outcomes of a result, each with its tick
Outcomes(r) ==
    [i \in 1..Len(r.assertions) |->
        IF r.assertions[i].kind = "Success"
        THEN <<"Passed", r.assertions[i].tick>>
        ELSE <<"Failed", r.assertions[i].fail.tick>>]

BothRan == pc = "done" /\ adapter = "steel" /\ hist # <<>>
OnMock == hist[1].results[1]
OnFull == Unwrap(summary).results[1]

BlocksWritten(a) ==
    CASE a.type = "Place" -> {a.block}
      [] a.type = "PlaceEach" -> {a.blocks[i].block : i \in 1..Len(a.blocks)}
      [] a.type = "Fill" -> {a.with}
      [] OTHER -> {}

WritesUnknownId(spec) ==
    \E k \in 1..Len(spec.timeline) :
        \E b \in BlocksWritten(spec.timeline[k].action_type) : IsUnknownBlockId(b.id)

\* C37 as stated: a spec of Place, PlaceEach, Fill, Remove and Assert
\* actions, run on the in-memory backend and on the full backend, gives the
\* same success flag and the same sequence of Passed/Failed outcomes, also
\* when it writes an identifier the full backend does not recognise.
C37_BackendsAgree ==
    BothRan => OnMock.success = OnFull.success /\ Outcomes(OnMock) = Outcomes(OnFull)

\* the two runs agree on every spec that writes only identifiers of the registry
AgreeOnKnownIds ==
    (BothRan /\ ~WritesUnknownId(specs[1])) =>
        OnMock.success = OnFull.success /\ Outcomes(OnMock) = Outcomes(OnFull)

IsSuccessEntry(a) == a.kind = "Success"
IsFailureEntry(a) == a.kind = "Failure"

\* Success entries with non-decreasing ticks, then at most one Failure
ResultShape(r) ==
    LET n == Len(r.assertions)
    IN /\ \A i \in 1..(n - 1) : IsSuccessEntry(r.assertions[i])
       /\ \A i \in 1..n, j \in 1..n :
             (i < j /\ IsSuccessEntry(r.assertions[i]) /\ IsSuccessEntry(r.assertions[j]))
                => r.assertions[i].tick <= r.assertions[j].tick
       /\ ~r.success <=> (n >= 1 /\ IsFailureEntry(r.assertions[n]))
       /\ ~r.success => r.total_ticks = r.assertions[n].fail.tick

\* C38: in every result that run_test returns, on either backend, the
\* assertion outcomes are Success entries with non-decreasing ticks followed
\* by at most one Failure entry, which is last; success is false exactly when
\* that Failure exists, and total_ticks is then the tick of the Failure.
C38_ResultShape ==
    /\ pc = "returned" => ResultShape(TheResult)
    /\ \A i \in 1..Len(results) : ResultShape(results[i])
    /\ \A i \in 1..Len(hist) : \A k \in 1..Len(hist[i].results) : ResultShape(hist[i].results[k])

\* a result with a Success of tick 0 before the Failure of tick 1
C38_Witness ==
    /\ pc = "returned"
    /\ ~TheResult.success
    /\ Len(TheResult.assertions) = 2
    /\ TheResult.assertions[1] = AssertionSuccess(0)
    /\ IsFailureEntry(TheResult.assertions[2])
    /\ TheResult.total_ticks = 1

DoTickCalls == SelectSeq(trace, IsDoTickCall)
WorldTick == FlintWorld_current_tick(Unwrap(world))

\* C39: when run_test returns after an assertion failure at tick t, the
\* world has been advanced exactly t times, once for each tick before t and
\* not for t; when it returns without failure, the world has been advanced
\* max_tick + 1 times, one more than the total_ticks = max_tick it reports.
C39_WorldAdvances ==
    pc = "returned" =>
        LET maxTick == SpecMaxTick(CurrentSpec)
            failed == TheResult.assertions[Len(TheResult.assertions)].fail.tick
        IN IF TheResult.success
           THEN /\ Len(DoTickCalls) = maxTick + 1
                /\ WorldTick = maxTick + 1
                /\ TheResult.total_ticks = maxTick
                /\ WorldTick = TheResult.total_ticks + 1
           ELSE /\ Len(DoTickCalls) = failed
                /\ WorldTick = failed
                /\ \A i \in 1..Len(DoTickCalls) : DoTickCalls[i].tick < failed

\* on the full backend, a run that failed at tick 1 of a spec that goes on: one do_tick
C39_Witness ==
    /\ pc = "returned"
    /\ adapter = "steel"
    /\ ~TheResult.success
    /\ TheResult.total_ticks = 1
    /\ WorldTick = 1
    /\ DoTickCalls = <<CallDoTick(0)>>

\* identifier[k1=v1,k2=v2,...] over the keys of the block in ascending order
IsKeyOf(props) == [k \in {KeysAscending[i] : i \in 1..Len(KeysAscending)} |-> k \in DOMAIN props]
RECURSIVE JoinProperties(_, _)
JoinProperties(props, keys) ==
    IF keys = <<>> THEN <<>>
    ELSE IF Len(keys) = 1 THEN <<keys[1], "=", props[keys[1]]>>
    ELSE <<keys[1], "=", props[keys[1]], ",">> \o JoinProperties(props, Tail(keys))
Rendering(b) ==
    LET has == IsKeyOf(b.properties)
        keys == SelectSeq(KeysAscending, LAMBDA k : has[k])
    IN IF keys = <<>> THEN b.id
       ELSE b.id \o <<"[">> \o JoinProperties(b.properties, keys) \o <<"]">>

\* the expected block without its null, array and object properties
WithoutUncompared(e) ==
    LET keys == {k \in DOMAIN e.properties : e.properties[k].t \notin {"Null", "Array"}}
    IN [id |-> e.id, properties |-> [k \in keys |-> ExpectedStr(e.properties[k])]]

FmtActual == MockWorld_get_block(FmtWorld(args.placed), P1)

\* C36: a block is written as its identifier alone when it has no
\* properties and as identifier[k1=v1,k2=v2,...] with the keys in ascending
\* order otherwise, whatever the order in which the map hands out its
\* properties; the message of an assertion failure carries this rendering of
\* the expected block without its null and array properties and of the block
\* read, and the expected value of the failure is that same expected block.
C36_CanonicalRendering ==
    IsSome(ret) =>
        /\ Unwrap(ret).fn = "to_string" =>
              /\ Unwrap(ret).value = Rendering(FmtActual)
              /\ DOMAIN FmtActual.properties = {} => Unwrap(ret).value = FmtActual.id
              /\ \A o \in IterationOrders(FmtActual.properties) :
                    BlockData_fmt(FmtActual, o) = Unwrap(ret).value
        /\ (Unwrap(ret).fn = "execute_action" /\ Unwrap(ret).value.outcome.kind = "AssertFailed") =>
              LET fail == Unwrap(ret).value.outcome.fail
              IN /\ fail.error_message.expected = Rendering(WithoutUncompared(args.expected))
                 /\ fail.error_message.got = Rendering(FmtActual)
                 /\ fail.error_message.pos = P1
                 /\ fail.expected = WithoutUncompared(args.expected)

\* two properties handed out in descending key order are written in ascending order
C36_Witness ==
    /\ IsSome(ret)
    /\ Unwrap(ret).fn = "to_string"
    /\ args.order = <<"properties", "powered">>
    /\ args.placed = Block(StoneId, [k \in {"powered", "properties"} |->
                                        IF k = "powered" THEN JBool(FALSE) ELSE JString("true")])
    /\ Unwrap(ret).value = <<MinecraftPrefix, "stone", "[", "powered", "=", "false", ",",
                             "properties", "=", "true", "]">>

====
